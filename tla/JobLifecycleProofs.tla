------------------------- MODULE JobLifecycleProofs -------------------------
(***************************************************************************)
(* Ingestion implements JobLifecycle: every step of a run maps to a step   *)
(* of its job row or to none.  And what the verdict in that row is worth:  *)
(* what it says of the vector store, that it is final, and that nothing    *)
(* but a dead process or a failed except clause keeps a job from it.       *)
(***************************************************************************)
EXTENDS IngestionProofs, WellFoundedInduction

\* What the client sees of the tables a job still has to ingest; the mapping
\* of JobLifecycle's variable "left".
Left == [j \in Runs |-> IF status[j] = "none" THEN {} ELSE run[j].todo]

\* Which status goes with which point of a run.
JobShape(j) ==
    /\ run[j].pc = "new" => status[j] = "none"
    /\ run[j].pc = "created" => status[j] = "pending"
    /\ run[j].pc \in Scanning \cup {"next"} => status[j] \in {"none", "running"}
    /\ run[j].pc = "failing" => status[j] \in {"pending", "running"}

JInv == Types /\ \A j \in Runs : JobShape(j)

\* A step of one run changes only its own row and its own tables.
LEMMA OneJob ==
    ASSUME Types, NEW j \in Runs, NEW new, NEW s,
           run' = [run EXCEPT ![j] = new],
           status' = [status EXCEPT ![j] = s]
    PROVE  /\ Left' = [Left EXCEPT ![j] = IF s = "none" THEN {}
                                                        ELSE new.todo]
           /\ run'[j] = new /\ status'[j] = s
           /\ \A i \in Runs \ {j} : run'[i] = run[i] /\ status'[i] = status[i]
  <1>1. run \in [Runs -> RunState] /\ DOMAIN status = Runs
    BY DEF Types
  <1> QED
    BY <1>1 DEF Left

\* The same for a run that has a job row.
LEMMA OneRow ==
    ASSUME Types, NEW j \in Runs, NEW new,
           NEW s \in {"pending", "running", "succeeded", "failed"},
           run' = [run EXCEPT ![j] = new],
           status' = [status EXCEPT ![j] = s]
    PROVE  /\ Left' = [Left EXCEPT ![j] = new.todo]
           /\ run'[j] = new /\ status'[j] = s
           /\ \A i \in Runs \ {j} : run'[i] = run[i] /\ status'[i] = status[i]
  <1>1. s # "none"
    OBVIOUS
  <1>2. /\ Left' = [Left EXCEPT ![j] = IF s = "none" THEN {} ELSE new.todo]
        /\ run'[j] = new /\ status'[j] = s
        /\ \A i \in Runs \ {j} : run'[i] = run[i] /\ status'[i] = status[i]
    BY OneJob
  <1>3. (IF s = "none" THEN {} ELSE new.todo) = new.todo
    BY <1>1
  <1> QED
    BY <1>2, <1>3

\* The step keeps every JobShape if it keeps that of the run that moves.
LEMMA OneShape ==
    ASSUME JInv, NEW j \in Runs,
           \A i \in Runs \ {j} : run'[i] = run[i] /\ status'[i] = status[i],
           JobShape(j)'
    PROVE  \A i \in Runs : JobShape(i)'
  BY DEF JInv, JobShape

JNext == Jobs!Next \/ UNCHANGED <<status, Left>>

LEMMA JobNext ==
    JInv /\ [Next]_vars => (\A i \in Runs : JobShape(i)') /\ JNext
  <1> SUFFICES ASSUME JInv, [Next]_vars
               PROVE  (\A i \in Runs : JobShape(i)') /\ JNext
    OBVIOUS
  <1> DEFINE Goal == (\A i \in Runs : JobShape(i)') /\ JNext
  <1>t. /\ Types /\ run \in [Runs -> RunState]
        /\ status \in [Runs -> {"none", "pending", "running", "succeeded",
                                "failed"}]
    BY DEF JInv, Types
  \* Steps that leave the job row alone.
  <1>q. ASSUME UNCHANGED <<status, run>>
        PROVE  Goal
    BY <1>q DEF JInv, JobShape, JNext, Left
  <1>p. ASSUME NEW j \in Runs, NEW new, run' = [run EXCEPT ![j] = new],
               UNCHANGED status, new.todo = run[j].todo \/ status[j] = "none",
               /\ new.pc = "new" => status[j] = "none"
               /\ new.pc = "created" => status[j] = "pending"
               /\ new.pc \in Scanning \cup {"next"}
                    => status[j] \in {"none", "running"}
               /\ new.pc = "failing" => status[j] \in {"pending", "running"}
        PROVE  Goal
    <2>1. status' = [status EXCEPT ![j] = status[j]]
      BY <1>p, <1>t
    <2>2. /\ Left' = [Left EXCEPT ![j] = IF status[j] = "none" THEN {}
                                                               ELSE new.todo]
          /\ run'[j] = new /\ status'[j] = status[j]
          /\ \A i \in Runs \ {j} : run'[i] = run[i] /\ status'[i] = status[i]
      BY <1>p, <1>t, <2>1, OneJob
    <2>3. Left[j] = IF status[j] = "none" THEN {} ELSE new.todo
      BY <1>p DEF Left
    <2>4. Left' = Left
      BY <2>2, <2>3 DEF Left
    <2>5. JobShape(j)'
      BY <1>p, <2>2 DEF JobShape
    <2> QED
      BY <1>p, <2>2, <2>4, <2>5, OneShape DEF JNext
  <1>1. ASSUME NEW j \in Runs, NEW requested \in SUBSET Tables,
               StartIngestion(j, requested)
        PROVE  Goal
    <2> DEFINE wanted == IF requested = {} THEN Tables ELSE requested
               new == At("created", wanted)
    <2>1. /\ status[j] = "none"
          /\ run' = [run EXCEPT ![j] = new]
          /\ status' = [status EXCEPT ![j] = "pending"]
      BY <1>1 DEF StartIngestion, JInv, JobShape
    <2>2. new.pc = "created" /\ new.todo = wanted
      BY DEF At
    <2> HIDE DEF new
    <2>3. /\ Left' = [Left EXCEPT ![j] = wanted]
          /\ run'[j] = new /\ status'[j] = "pending"
          /\ \A i \in Runs \ {j} : run'[i] = run[i] /\ status'[i] = status[i]
      BY <1>t, <2>1, <2>2, OneRow
    <2>4. JobShape(j)'
      BY <2>2, <2>3 DEF JobShape, Scanning
    <2>5. Jobs!Create(j, wanted)
      BY <2>1, <2>3 DEF Jobs!Create, Left
    <2>6. wanted \in SUBSET Tables
      OBVIOUS
    <2> HIDE DEF wanted
    <2> QED
      BY <2>3, <2>4, <2>5, <2>6, OneShape DEF JNext, Jobs!Next
  <1>2. ASSUME NEW j \in Runs, StartCli(j)
        PROVE  Goal
    <2>1. /\ status[j] = "none" /\ UNCHANGED status
          /\ run' = [run EXCEPT ![j] = At("next", Tables)]
      BY <1>2 DEF StartCli, JInv, JobShape
    <2>2. At("next", Tables).pc = "next"
      BY DEF At
    <2> QED
      BY <1>p, <2>1, <2>2
  <1>3. ASSUME NEW j \in Runs, MarkRunning(j)
        PROVE  Goal
    <2> DEFINE new == [run[j] EXCEPT !.pc = "next"]
    <2>1. /\ status[j] = "pending"
          /\ run' = [run EXCEPT ![j] = new]
          /\ status' = [status EXCEPT ![j] = "running"]
      BY <1>3, <1>t DEF MarkRunning, JInv, JobShape
    <2>2. new.pc = "next" /\ new.todo = run[j].todo
      BY <1>t DEF RunState
    <2> HIDE DEF new
    <2>3. /\ Left' = [Left EXCEPT ![j] = run[j].todo]
          /\ run'[j] = new /\ status'[j] = "running"
          /\ \A i \in Runs \ {j} : run'[i] = run[i] /\ status'[i] = status[i]
      BY <1>t, <2>1, <2>2, OneRow
    <2>4. Left' = Left
      BY <2>1, <2>3 DEF Left
    <2>5. JobShape(j)'
      BY <2>2, <2>3 DEF JobShape, Scanning
    <2>6. Jobs!Start(j)
      BY <2>1, <2>4 DEF Jobs!Start, Left
    <2> QED
      BY <2>3, <2>5, <2>6, OneShape DEF JNext, Jobs!Next
  <1>4. ASSUME NEW j \in Runs, NEW t \in Tables, ReadWatermark(j, t)
        PROVE  Goal
    <2> DEFINE new == [run[j] EXCEPT !.pc = "scan", !.table = t,
                                     !.since = watermark[t]]
    <2>1. run' = [run EXCEPT ![j] = new] /\ UNCHANGED status
      BY <1>4, <1>t DEF ReadWatermark
    <2>2. new.pc = "scan" /\ new.todo = run[j].todo
      BY <1>t DEF RunState
    <2>3. status[j] \in {"none", "running"}
      BY <1>4 DEF ReadWatermark, JInv, JobShape
    <2> HIDE DEF new
    <2> QED
      BY <1>p, <2>1, <2>2, <2>3
  \* The steps of the loop stay in the loop.
  <1>l. ASSUME NEW j \in Runs, NEW new, run[j].pc \in Scanning,
               run' = [run EXCEPT ![j] = new], UNCHANGED status,
               new.pc \in Scanning, new.todo = run[j].todo
        PROVE  Goal
    <2>1. status[j] \in {"none", "running"}
      BY <1>l DEF JInv, JobShape
    <2>2. new.pc \notin {"new", "created", "failing"}
      BY <1>l DEF Scanning
    <2> QED
      BY <1>l, <1>p, <2>1, <2>2
  <1>5. ASSUME NEW j \in Runs, FetchPage(j)
        PROVE  Goal
    <2>1. \E page, eof, offset :
            run' = [run EXCEPT ![j] =
                      [run[j] EXCEPT !.pc = Resume(page, run[j].pending, eof),
                                     !.page = page, !.eof = eof,
                                     !.offset = offset]]
      BY <1>5, Zenon DEF FetchPage
    <2>2. PICK page, eof, offset :
            run' = [run EXCEPT ![j] =
                      [run[j] EXCEPT !.pc = Resume(page, run[j].pending, eof),
                                     !.page = page, !.eof = eof,
                                     !.offset = offset]]
      BY <2>1, Zenon
    <2> DEFINE new == [run[j] EXCEPT !.pc = Resume(page, run[j].pending, eof),
                                     !.page = page, !.eof = eof,
                                     !.offset = offset]
    <2>3. new.pc \in Scanning /\ new.todo = run[j].todo
      BY <1>t, ResumeType DEF RunState
    <2>4. run[j].pc \in Scanning /\ UNCHANGED status
      BY <1>5 DEF FetchPage, Scanning
    <2>5. run' = [run EXCEPT ![j] = new]
      BY <2>2
    <2> HIDE DEF new
    <2> QED
      BY <1>l, <2>3, <2>4, <2>5
  <1>6. ASSUME NEW j \in Runs, ProcessRow(j)
        PROVE  Goal
    <2>1. PICK pc, page, pending, max :
            /\ pc \in Scanning
            /\ run' = [run EXCEPT ![j] =
                        [run[j] EXCEPT !.pc = pc, !.page = page,
                                       !.pending = pending, !.max = max]]
      <3>1. PICK p \in run[j].page :
              run' = [run EXCEPT ![j] =
                [run[j] EXCEPT
                   !.pc = IF Cardinality(run[j].pending
                                          \cup ChunksOf(p, run[j].offset))
                                  >= BatchSize
                          THEN "flush"
                          ELSE Resume(run[j].page \ {p},
                                      run[j].pending
                                          \cup ChunksOf(p, run[j].offset),
                                      run[j].eof),
                   !.page = run[j].page \ {p},
                   !.pending = run[j].pending \cup ChunksOf(p, run[j].offset),
                   !.max = IF p.stamp > @ THEN p.stamp ELSE @]]
        BY <1>6, Zenon DEF ProcessRow
      <3> DEFINE pending == run[j].pending \cup ChunksOf(p, run[j].offset)
                 page == run[j].page \ {p}
                 pc == IF Cardinality(pending) >= BatchSize THEN "flush"
                       ELSE Resume(page, pending, run[j].eof)
                 max == IF p.stamp > run[j].max THEN p.stamp ELSE run[j].max
      <3>2. pc \in Scanning
        BY ResumeType DEF Scanning
      <3>3. run' = [run EXCEPT ![j] =
                      [run[j] EXCEPT !.pc = pc, !.page = page,
                                     !.pending = pending, !.max = max]]
        BY <3>1, Zenon
      <3> HIDE DEF pending, page, pc, max
      <3> QED
        BY <3>2, <3>3
    <2> DEFINE new == [run[j] EXCEPT !.pc = pc, !.page = page,
                                     !.pending = pending, !.max = max]
    <2>2. new.pc \in Scanning /\ new.todo = run[j].todo
      BY <1>t, <2>1 DEF RunState
    <2>3. run[j].pc \in Scanning /\ UNCHANGED status
      BY <1>6 DEF ProcessRow, Scanning
    <2>4. run' = [run EXCEPT ![j] = new]
      BY <2>1
    <2> HIDE DEF new
    <2> QED
      BY <1>l, <2>2, <2>3, <2>4
  <1>7. ASSUME NEW j \in Runs, Flush(j)
        PROVE  Goal
    <2> DEFINE new == [run[j] EXCEPT !.pc = Resume(run[j].page, {}, run[j].eof),
                                     !.pending = {}]
    <2>1. new.pc \in Scanning /\ new.todo = run[j].todo
      BY <1>t, ResumeType DEF RunState
    <2>2. /\ run[j].pc \in Scanning /\ UNCHANGED status
          /\ run' = [run EXCEPT ![j] = new]
      BY <1>7 DEF Flush, Scanning
    <2> HIDE DEF new
    <2> QED
      BY <1>l, <2>1, <2>2
  <1>8. ASSUME NEW j \in Runs, SetWatermark(j)
        PROVE  Goal
    <2>0. PICK t \in Tables : t = run[j].table /\ t \in run[j].todo
      BY <1>8, <1>t DEF SetWatermark, Scanning, Types, RunState
    <2> DEFINE new == At("next", run[j].todo \ {t})
    <2>1. /\ run[j].pc \in Scanning /\ UNCHANGED status
          /\ run' = [run EXCEPT ![j] = new]
      BY <1>8, <2>0 DEF SetWatermark, Scanning
    <2>2. new.pc = "next" /\ new.todo = run[j].todo \ {t}
      BY DEF At
    <2>3. t \in run[j].todo /\ run[j].todo \subseteq Tables
      BY <2>0, <1>t DEF RunState
    <2>4. status[j] \in {"none", "running"}
      BY <2>1 DEF JInv, JobShape
    <2> HIDE DEF new
    <2>5. CASE status[j] = "none"
      BY <1>p, <2>1, <2>2, <2>5
    <2>6. CASE status[j] = "running"
      <3>1. status' = [status EXCEPT ![j] = "running"]
        BY <1>t, <2>1, <2>6
      <3>2. /\ Left' = [Left EXCEPT ![j] = run[j].todo \ {t}]
            /\ run'[j] = new /\ status'[j] = "running"
            /\ \A i \in Runs \ {j} : run'[i] = run[i]
                                     /\ status'[i] = status[i]
        BY <1>t, <2>1, <2>2, <3>1, OneRow
      <3>3. Left[j] = run[j].todo
        BY <2>6 DEF Left
      <3>4. JobShape(j)'
        BY <2>2, <3>2 DEF JobShape, Scanning
      <3>5. Jobs!FinishTable(j, t)
        BY <2>1, <2>3, <2>6, <3>2, <3>3 DEF Jobs!FinishTable, Left
      <3> QED
        BY <2>0, <3>2, <3>4, <3>5, OneShape DEF JNext, Jobs!Next
    <2> QED
      BY <2>4, <2>5, <2>6
  <1>9. ASSUME NEW j \in Runs, Finish(j)
        PROVE  Goal
    <2> DEFINE new == [run[j] EXCEPT !.pc = "ended"]
    <2>1. /\ run[j].todo = {} /\ status[j] \in {"none", "running"}
          /\ run' = [run EXCEPT ![j] = new]
          /\ status' = [status EXCEPT ![j] = IF @ = "none" THEN @
                                                           ELSE "succeeded"]
      BY <1>9, <1>t DEF Finish, JInv, JobShape
    <2>2. new.pc = "ended" /\ new.todo = run[j].todo
      BY <1>t DEF RunState
    <2> HIDE DEF new
    <2>3. CASE status[j] = "none"
      <3>1. UNCHANGED status
        BY <1>t, <2>1, <2>3
      <3> QED
        BY <1>p, <2>1, <2>2, <2>3, <3>1 DEF Scanning
    <2>4. CASE status[j] = "running"
      <3>1. status' = [status EXCEPT ![j] = "succeeded"]
        BY <1>t, <2>1, <2>4
      <3>2. /\ Left' = [Left EXCEPT ![j] = {}]
            /\ run'[j] = new /\ status'[j] = "succeeded"
            /\ \A i \in Runs \ {j} : run'[i] = run[i]
                                     /\ status'[i] = status[i]
        BY <1>t, <2>1, <2>2, <3>1, OneRow
      <3>3. Left' = Left /\ Left[j] = {}
        BY <2>1, <2>4, <3>2 DEF Left
      <3>4. JobShape(j)'
        BY <2>2, <3>2 DEF JobShape, Scanning
      <3>5. Jobs!Succeed(j)
        BY <2>4, <3>1, <3>3 DEF Jobs!Succeed, Left
      <3> QED
        BY <3>2, <3>4, <3>5, OneShape DEF JNext, Jobs!Next
    <2> QED
      BY <2>1, <2>3, <2>4
  <1>10. ASSUME NEW j \in Runs, Raise(j)
         PROVE  Goal
    <2> DEFINE new == At(IF status[j] = "none" THEN "ended" ELSE "failing",
                         run[j].todo)
    <2>1. /\ run' = [run EXCEPT ![j] = new] /\ UNCHANGED status
          /\ status[j] \in {"none", "pending", "running"}
      BY <1>10 DEF Raise, JInv, JobShape
    <2>2. /\ new.pc = IF status[j] = "none" THEN "ended" ELSE "failing"
          /\ new.todo = run[j].todo
      BY DEF At
    <2> HIDE DEF new
    <2> QED
      BY <1>p, <2>1, <2>2 DEF Scanning
  <1>11. ASSUME NEW j \in Runs, MarkFailed(j)
         PROVE  Goal
    <2> DEFINE new == [run[j] EXCEPT !.pc = "ended"]
    <2>1. /\ status[j] \in {"pending", "running"}
          /\ run' = [run EXCEPT ![j] = new]
          /\ status' = [status EXCEPT ![j] = "failed"]
      BY <1>11, <1>t DEF MarkFailed, JInv, JobShape
    <2>2. new.pc = "ended" /\ new.todo = run[j].todo
      BY <1>t DEF RunState
    <2> HIDE DEF new
    <2>3. /\ Left' = [Left EXCEPT ![j] = new.todo]
          /\ run'[j] = new /\ status'[j] = "failed"
          /\ \A i \in Runs \ {j} : run'[i] = run[i] /\ status'[i] = status[i]
      BY <1>t, <2>1, OneRow
    <2>4. Left' = Left
      BY <2>1, <2>2, <2>3 DEF Left
    <2>5. JobShape(j)'
      BY <2>2, <2>3 DEF JobShape, Scanning
    <2>6. Jobs!Fail(j)
      BY <2>1, <2>4 DEF Jobs!Fail, Left
    <2> QED
      BY <2>3, <2>5, <2>6, OneShape DEF JNext, Jobs!Next
  <1>12. ASSUME NEW j \in Runs, MarkFailedRaises(j)
         PROVE  Goal
    <2> DEFINE new == [run[j] EXCEPT !.pc = "escaped"]
    <2>1. run' = [run EXCEPT ![j] = new] /\ UNCHANGED status
      BY <1>12, <1>t DEF MarkFailedRaises
    <2>2. new.pc = "escaped" /\ new.todo = run[j].todo
      BY <1>t DEF RunState
    <2> HIDE DEF new
    <2> QED
      BY <1>p, <2>1, <2>2 DEF Scanning
  <1>13. ASSUME NEW j \in Runs, Crash(j)
         PROVE  Goal
    <2> DEFINE new == At("crashed", run[j].todo)
    <2>1. run' = [run EXCEPT ![j] = new] /\ UNCHANGED status
      BY <1>13 DEF Crash
    <2>2. new.pc = "crashed" /\ new.todo = run[j].todo
      BY DEF At
    <2> HIDE DEF new
    <2> QED
      BY <1>p, <2>1, <2>2 DEF Scanning
  <1>14. ASSUME NEW k \in Resets, ResetStep(k)
         PROVE  Goal
    BY <1>14, <1>q DEF ResetStep, ResetDeleteChunks, ResetNothing,
                       ResetDeleteWatermarks, ResetAborts
  <1>15. ASSUME ChatEnsuresTable
         PROVE  Goal
    BY <1>15, <1>q DEF ChatEnsuresTable
  <1>16. ASSUME NEW t \in Tables, NEW r \in Rows, NEW new \in RowValues(t),
                EditSource(t, r, new)
         PROVE  Goal
    BY <1>16, <1>q DEF EditSource
  <1>17. ASSUME UNCHANGED vars
         PROVE  Goal
    BY <1>17, <1>q DEF vars
  <1>18. Goal
    <2> HIDE DEF Goal
    <2>1. ASSUME NEW j \in Runs, RunStep(j)
          PROVE  Goal
      BY <2>1, <1>3, <1>4, <1>5, <1>6, <1>7, <1>8, <1>9, <1>10, <1>11, Zenon
         DEF RunStep
    <2>2. CASE Next
      BY <2>1, <2>2, <1>1, <1>2, <1>12, <1>13, <1>14, <1>15, <1>16, Zenon
         DEF Next
    <2> QED
      BY <2>2, <1>17
  <1> QED
    BY <1>18

\* The job row an administrator polls follows JobLifecycle: it moves one way to
\* one verdict that is never changed, and "succeeded" is only written when every
\* requested table has been carried to its watermark.
THEOREM JobsRefined == Spec => JobLifecycleHolds
  <1>1. Init => JInv /\ Jobs!Init
    <2> SUFFICES ASSUME Init PROVE JInv /\ Jobs!Init
      OBVIOUS
    <2>1. \A j \in Runs : JobShape(j)
      BY DEF Init, At, JobShape, Scanning
    <2>2. Jobs!Init
      BY DEF Init, Jobs!Init
    <2> QED
      BY <2>1, <2>2, TypeInit DEF JInv
  <1>2. JInv /\ [Next]_vars => JInv'
    BY JobNext, TypeNext DEF JInv
  <1>3. JInv /\ [Next]_vars => [Jobs!Next]_Jobs!vars
    BY JobNext DEF JNext, Left, Jobs!vars
  <1> QED
    BY <1>1, <1>2, <1>3, PTL DEF Spec, JobLifecycleHolds, Jobs!Spec

-----------------------------------------------------------------------------
(* What the verdict says of the store.                                     *)

\* A flush writes what is current of a row that no edit has exposed.
LEMMA StoredStep ==
    ASSUME IInv, [Next]_vars, NEW t \in Tables, NEW r \in Rows,
           r \notin exposed[t], source'[t][r] = source[t][r], NotReset(t),
           Stored(t, r)
    PROVE  Stored(t, r)'
  <1>1. /\ run \in [Runs -> RunState]
        /\ store \in [Tables -> [Rows -> [Index -> 0..MaxVersion]]]
        /\ reset \in [Resets -> [pc : {"idle", "deleting", "answered", "aborted"},
                                 scope : SUBSET Tables]]
    BY DEF IInv, Types
  <1>2. ASSUME store'[t] = store[t]
        PROVE  Stored(t, r)'
    BY <1>2 DEF Stored
  <1>3. ASSUME NEW j \in Runs, Flush(j)
        PROVE  Stored(t, r)'
    <2>1. /\ run[j].pc \in Scanning
          /\ store' = [store EXCEPT ![run[j].table] =
                            Upserted(store[run[j].table], run[j].pending)]
      BY <1>3 DEF Flush, Scanning
    <2>2. CASE run[j].table # t
      BY <1>1, <1>2, <2>1, <2>2
    <2>3. CASE run[j].table = t
      <3> DEFINE v == source[t][r].version
                 b == run[j].pending
      <3>1. \A c \in b : c.row = r => c.version = v
        BY <2>1, <2>3 DEF IInv, ScanProgress, Progress
      <3>2. store'[t] = Upserted(store[t], b)
        BY <1>1, <2>1, <2>3
      <3> HIDE DEF b
      <3>3. ASSUME NEW i \in Index, i < ChunkCount[r][v]
            PROVE  store'[t][r][i] = v
        <4>1. store[t][r][i] = v
          BY <3>3 DEF Stored
        <4> HIDE DEF v
        <4> QED
          BY <3>1, <3>2, <4>1, UpsertCurrent
      <3> QED
        BY <3>3 DEF Stored
    <2> QED
      BY <2>2, <2>3
  <1>4. ASSUME NEW j \in Runs, RunStep(j), ~Flush(j)
        PROVE  store' = store
    BY <1>4 DEF RunStep, MarkRunning, ReadWatermark, FetchPage, ProcessRow,
                SetWatermark, Finish, Raise, MarkFailed
  <1>5. ASSUME NEW k \in Resets, ResetStep(k)
        PROVE  store'[t] = store[t]
    <2>1. ASSUME NEW requested \in SUBSET Tables, ResetDeleteChunks(k, requested)
          PROVE  store'[t] = store[t]
      <3> DEFINE scope == IF requested = {} THEN Tables ELSE requested
      <3>1. /\ reset[k].pc = "idle"
            /\ reset' = [reset EXCEPT ![k] = [pc |-> "deleting", scope |-> scope]]
            /\ store' = [u \in Tables |-> IF u \in scope THEN NoChunks
                                                         ELSE store[u]]
        BY <2>1 DEF ResetDeleteChunks
      <3> HIDE DEF scope
      <3>2. reset'[k].pc = "deleting" /\ reset'[k].scope = scope
        BY <1>1, <3>1
      <3>3. t \notin scope
        BY <3>1, <3>2 DEF NotReset
      <3> QED
        BY <3>1, <3>3
    <2>2. ASSUME NEW requested \in SUBSET Tables, ResetNothing(k, requested)
          PROVE  store'[t] = store[t]
      BY <2>2 DEF ResetNothing
    <2> QED
      BY <1>5, <2>1, <2>2 DEF ResetStep, ResetDeleteWatermarks, ResetAborts
  <1>6. ASSUME NEW j \in Runs,
               \/ \E requested \in SUBSET Tables : StartIngestion(j, requested)
               \/ StartCli(j) \/ MarkFailedRaises(j) \/ Crash(j)
        PROVE  store' = store
    BY <1>6 DEF StartIngestion, StartCli, MarkFailedRaises, Crash
  <1>7. ASSUME NEW u \in Tables, NEW q \in Rows, NEW new \in RowValues(u),
               EditSource(u, q, new)
        PROVE  store' = store
    BY <1>7 DEF EditSource
  <1>8. ChatEnsuresTable \/ UNCHANGED vars => store' = store
    BY DEF ChatEnsuresTable, vars
  <1> QED
    BY <1>2, <1>3, <1>4, <1>5, <1>6, <1>7, <1>8, Zenon DEF Next

\* upsert_chunks: no run, however old its pages are, takes back what another
\* has stored, unless the row itself is edited or reset.
THEOREM StoredStays ==
    Spec => [][\A t \in Tables : \A r \in Rows \ exposed[t] :
                 source'[t][r] = source[t][r] /\ NotReset(t) /\ Stored(t, r)
                    => Stored(t, r)']_vars
  <1>1. IInv /\ [Next]_vars =>
            [\A t \in Tables : \A r \in Rows \ exposed[t] :
                 source'[t][r] = source[t][r] /\ NotReset(t) /\ Stored(t, r)
                    => Stored(t, r)']_vars
    BY StoredStep
  <1> QED
    BY <1>1, IInvInit, IInvNext, PTL DEF Spec

\* A run that has not started has nothing to do yet.
NewIsEmpty == \A j \in Runs : run[j].pc = "new" => run[j].todo = {}

\* A table leaves what a run has to do when its watermark is written.
LEMMA TodoStep ==
    ASSUME Types, NewIsEmpty, [Next]_vars, NEW j \in Runs
    PROVE  /\ run'[j].pc = "new" => run[j].pc = "new" /\ run'[j] = run[j]
           /\ \A t \in run[j].todo \ run'[j].todo :
                    run[j].pc = "mark" /\ run[j].table = t
  <1> DEFINE Goal ==
                /\ run'[j].pc = "new" => run[j].pc = "new" /\ run'[j] = run[j]
                /\ \A t \in run[j].todo \ run'[j].todo :
                        run[j].pc = "mark" /\ run[j].table = t
  <1>1. run \in [Runs -> RunState] /\ run[j] \in RunState
    BY DEF Types
  <1>2. ASSUME run'[j] = run[j] PROVE Goal
    BY <1>2
  <1>3. ASSUME run'[j].pc # "new", run'[j].todo = run[j].todo PROVE Goal
    BY <1>3
  <1>4. ASSUME run[j].pc = "new", run'[j].pc # "new" PROVE Goal
    BY <1>4 DEF NewIsEmpty
  <1>5. ASSUME NEW i \in Runs, i # j, NEW new, run' = [run EXCEPT ![i] = new]
        PROVE  Goal
    <2>1. run'[j] = run[j]
      BY <1>1, <1>5
    <2> HIDE DEF Goal
    <2> QED
      BY <1>2, <2>1
  <1>6. ASSUME NEW i \in Runs,
               \/ \E requested \in SUBSET Tables : StartIngestion(i, requested)
               \/ StartCli(i)
        PROVE  Goal
    <2>1. run[i].pc = "new"
      BY <1>6 DEF StartIngestion, StartCli
    <2>2. PICK new : run' = [run EXCEPT ![i] = new] /\ new.pc # "new"
      <3>1. \A todo : At("created", todo).pc # "new" /\ At("next", todo).pc # "new"
        BY DEF At
      <3>2. CASE StartCli(i)
        BY <3>1, <3>2 DEF StartCli
      <3>3. ASSUME NEW requested \in SUBSET Tables, StartIngestion(i, requested)
            PROVE  \E new : run' = [run EXCEPT ![i] = new] /\ new.pc # "new"
        BY <3>1, <3>3 DEF StartIngestion
      <3> QED
        BY <1>6, <3>2, <3>3
    <2>3. i = j => run'[j].pc # "new"
      BY <1>1, <2>2
    <2> HIDE DEF Goal
    <2> QED
      BY <1>4, <1>5, <2>1, <2>2, <2>3
  <1>7. ASSUME NEW i \in Runs, RunStep(i) \/ MarkFailedRaises(i) \/ Crash(i),
               ~SetWatermark(i)
        PROVE  Goal
    <2> HIDE DEF Goal
    <2>1. run[i] \in RunState
      BY <1>1
    <2>2. PICK new : /\ run' = [run EXCEPT ![i] = new]
                     /\ new.pc # "new" /\ new.todo = run[i].todo
      <3>1. CASE FetchPage(i) \/ ProcessRow(i) \/ Flush(i)
        BY <3>1, LoopStep DEF Scanning
      <3>4. CASE Raise(i) \/ Crash(i)
        BY <3>4 DEF Raise, Crash, At
      <3>5. CASE \/ MarkRunning(i) \/ Finish(i) \/ MarkFailed(i)
                 \/ MarkFailedRaises(i)
        <4>1. PICK pc \in {"next", "ended", "escaped"} :
                run' = [run EXCEPT ![i] = [run[i] EXCEPT !.pc = pc]]
          BY <1>1, <3>5 DEF MarkRunning, Finish, MarkFailed, MarkFailedRaises
        <4>2. /\ [run[i] EXCEPT !.pc = pc].pc = pc
              /\ [run[i] EXCEPT !.pc = pc].todo = run[i].todo
          BY <2>1 DEF RunState
        <4> QED
          BY <4>1, <4>2
      <3>6. ASSUME NEW u \in Tables, ReadWatermark(i, u)
            PROVE  \E new : /\ run' = [run EXCEPT ![i] = new]
                            /\ new.pc # "new" /\ new.todo = run[i].todo
        <4> DEFINE new == [run[i] EXCEPT !.pc = "scan", !.table = u,
                                         !.since = watermark[u]]
        <4>1. run' = [run EXCEPT ![i] = new]
          BY <1>1, <3>6 DEF ReadWatermark
        <4>2. new.pc = "scan" /\ new.todo = run[i].todo
          BY <2>1 DEF RunState
        <4> HIDE DEF new
        <4> QED
          BY <4>1, <4>2
      <3> QED
        BY <1>7, <3>1, <3>4, <3>5, <3>6 DEF RunStep
    <2>3. i = j => run'[j].pc # "new" /\ run'[j].todo = run[j].todo
      BY <1>1, <2>2
    <2> QED
      BY <1>3, <1>5, <2>2, <2>3
  <1>8. ASSUME NEW i \in Runs, SetWatermark(i)
        PROVE  Goal
    <2>1. /\ run[i].pc = "mark"
          /\ run' = [run EXCEPT ![i] = At("next", run[i].todo \ {run[i].table})]
      BY <1>8 DEF SetWatermark
    <2>2. i = j => /\ run'[j].pc = "next"
                   /\ run'[j].todo = run[j].todo \ {run[j].table}
      BY <1>1, <2>1 DEF At
    <2>3. i = j => Goal
      BY <2>1, <2>2
    <2> HIDE DEF Goal
    <2> QED
      BY <1>5, <2>1, <2>3
  <1>9. ASSUME UNCHANGED run PROVE Goal
    BY <1>2, <1>9
  <1>10. ASSUME NEW k \in Resets, ResetStep(k)
         PROVE  UNCHANGED run
    BY <1>10 DEF ResetStep, ResetDeleteChunks, ResetNothing,
                 ResetDeleteWatermarks, ResetAborts
  <1>11. ASSUME NEW u \in Tables, NEW q \in Rows, NEW new \in RowValues(u),
                EditSource(u, q, new)
         PROVE  UNCHANGED run
    BY <1>11 DEF EditSource
  <1>12. ChatEnsuresTable \/ UNCHANGED vars => UNCHANGED run
    BY DEF ChatEnsuresTable, vars
  <1>13. Goal
    <2> HIDE DEF Goal
    <2> QED
      BY <1>6, <1>7, <1>8, <1>9, <1>10, <1>11, <1>12, Zenon DEF Next
  <1> QED
    BY <1>13

\* Every row of the table is in the store.
TableStored(t) == \A r \in Rows : Live(source[t][r]) => Stored(t, r)

\* A table that the run has left behind is stored.
Kept(j, t) == t \notin run[j].todo => TableStored(t)

KInv == IInv /\ ExposedCovered /\ NewIsEmpty

LEMMA KInvHolds == Spec => []KInv
  <1>1. Init => NewIsEmpty
    BY DEF Init, NewIsEmpty, At
  <1>2. Types /\ NewIsEmpty /\ [Next]_vars => NewIsEmpty'
    BY TodoStep DEF NewIsEmpty
  <1>3. IInv => Types
    BY DEF IInv
  <1> QED
    BY <1>1, <1>2, <1>3, IInvInit, IInvNext, ExposedCoveredCorrect, PTL
       DEF Spec, KInv

LEMMA KeptStep ==
    ASSUME KInv, [Next]_vars, NEW j \in Runs, NEW t \in Tables, Calm(t),
           exposed[t] = {}, Kept(j, t)
    PROVE  exposed'[t] = {} /\ Kept(j, t)'
  <1>1. IInv /\ Types
    BY DEF KInv, IInv
  <1>2. exposed'[t] = {}
    BY <1>1, CalmStep
  <1> SUFFICES ASSUME t \notin run'[j].todo, NEW r \in Rows, Live(source'[t][r])
               PROVE  Stored(t, r)'
    BY <1>2 DEF Kept, TableStored
  <1>3. source'[t] = source[t] /\ NotReset(t)
    BY DEF Calm
  <1>4. Stored(t, r)
    <2>1. CASE t \notin run[j].todo
      BY <1>3, <2>1 DEF Kept, TableStored
    <2>2. CASE t \in run[j].todo
      <3>1. run[j].pc = "mark" /\ run[j].table = t
        BY <1>1, <2>2, TodoStep DEF KInv
      <3>2. /\ Progress(j) /\ run[j].pc \in Scanning
            /\ run[j].page = {} /\ run[j].pending = {} /\ run[j].eof = TRUE
        BY <1>1, <3>1 DEF IInv, ScanProgress, Shape, Scanning
      <3>3. r \in Rows \ exposed[t] /\ Live(source[t][r])
        BY <1>3
      <3> QED
        BY <3>1, <3>2, <3>3 DEF Progress, Stored
    <2> QED
      BY <2>1, <2>2
  <1> QED
    BY <1>1, <1>3, <1>4, StoredStep

\* run_ingestion: a table that is among those a run has to do, and of which no
\* row is out of reach, has every row in the store once the run has left it
\* behind, and keeps them there whatever other runs, failures and crashes
\* follow, as long as the table is neither edited nor reset.
THEOREM TableDone ==
    ASSUME NEW j \in Runs, NEW t \in Tables
    PROVE  Spec => [](t \in run[j].todo /\ exposed[t] = {}
                      /\ [][Calm(t)]_vars
                        => [](t \notin run[j].todo => TableStored(t)))
  <1> DEFINE Empty == exposed[t] = {}
             Todo == t \in run[j].todo
             Done == t \notin run[j].todo
  <1>1. Todo => Kept(j, t)
    BY DEF Kept
  <1>2. KInv /\ Empty /\ Kept(j, t) /\ [Next]_vars /\ [Calm(t)]_vars
            => Empty' /\ Kept(j, t)'
    <2>1. UNCHANGED vars => Calm(t)
      BY DEF vars, Calm, NotReset
    <2> QED
      BY <2>1, KeptStep
  <1>3. Kept(j, t) => (Done => TableStored(t))
    BY DEF Kept
  <1> HIDE DEF Empty, Todo, Done
  <1>4. Spec => [](Todo /\ Empty /\ [][Calm(t)]_vars
                        => [](Done => TableStored(t)))
    BY <1>1, <1>2, <1>3, KInvHolds, PTL DEF Spec
  <1> QED
    BY <1>4 DEF Empty, Todo, Done

-----------------------------------------------------------------------------
(* The verdict.                                                            *)

\* A success leaves nothing to do.
DoneIfSucceeded == \A j \in Runs : status[j] = "succeeded" => Left[j] = {}

Verdicts == {"succeeded", "failed"}

JobsOK == /\ DOMAIN status = Runs /\ DOMAIN Left = Runs
          /\ DoneIfSucceeded

\* What every job row that behaves as JobLifecycle says is worth to the client
\* that polls it: a verdict is final and a success leaves no table undone.
LEMMA JobStep ==
    ASSUME JobsOK, [Jobs!Next]_Jobs!vars
    PROVE  /\ JobsOK'
           /\ \A j \in Runs : status[j] \in Verdicts => status'[j] = status[j]
  <1>1. CASE UNCHANGED Jobs!vars
    BY <1>1 DEF JobsOK, DoneIfSucceeded, Jobs!vars, Left
  <1>2. ASSUME NEW j \in Runs, NEW wanted \in SUBSET Tables,
               Jobs!Create(j, wanted)
        PROVE  /\ JobsOK'
               /\ \A i \in Runs : status[i] \in Verdicts => status'[i] = status[i]
    <2>1. /\ status[j] = "none" /\ status' = [status EXCEPT ![j] = "pending"]
          /\ Left' = [Left EXCEPT ![j] = wanted]
      BY <1>2 DEF Jobs!Create, Left
    <2> QED
      BY <2>1 DEF JobsOK, DoneIfSucceeded, Verdicts
  <1>3. ASSUME NEW j \in Runs, Jobs!Start(j) \/ Jobs!Succeed(j) \/ Jobs!Fail(j)
        PROVE  /\ JobsOK'
               /\ \A i \in Runs : status[i] \in Verdicts => status'[i] = status[i]
    <2>1. /\ Left' = Left /\ status[j] \notin Verdicts
          /\ \E s : /\ status' = [status EXCEPT ![j] = s]
                    /\ s = "succeeded" => Left[j] = {}
      BY <1>3 DEF Jobs!Start, Jobs!Succeed, Jobs!Fail, Left, Verdicts
    <2> QED
      BY <2>1 DEF JobsOK, DoneIfSucceeded
  <1>4. ASSUME NEW j \in Runs, NEW t \in Tables, Jobs!FinishTable(j, t)
        PROVE  /\ JobsOK'
               /\ \A i \in Runs : status[i] \in Verdicts => status'[i] = status[i]
    <2>1. /\ status' = status /\ status[j] = "running"
          /\ Left' = [Left EXCEPT ![j] = Left[j] \ {t}]
      BY <1>4 DEF Jobs!FinishTable, Left
    <2> QED
      BY <2>1 DEF JobsOK, DoneIfSucceeded
  <1> QED
    BY <1>1, <1>2, <1>3, <1>4 DEF Jobs!Next

LEMMA JobsOKInit == Jobs!Init => JobsOK
  BY DEF Jobs!Init, JobsOK, DoneIfSucceeded, Left

\* GET /admin/ingest/{job_id}: "succeeded" tells the truth.  If no row of a
\* table is out of reach when the job is for it, and nobody edits or resets it
\* since, then every row of it is in the store whenever the job says so.
THEOREM SuccessTruthful ==
    ASSUME NEW j \in Runs, NEW t \in Tables
    PROVE  Spec => [](t \in run[j].todo /\ exposed[t] = {}
                      /\ [][Calm(t)]_vars
                        => [](status[j] = "succeeded" => TableStored(t)))
  <1> DEFINE Empty == exposed[t] = {}
             Todo == t \in run[j].todo
             Done == t \notin run[j].todo
             Success == status[j] = "succeeded"
  <1>1. JobLifecycleHolds => []JobsOK
    <2>1. JobsOK /\ [Jobs!Next]_Jobs!vars => JobsOK'
      BY JobStep
    <2> QED
      BY <2>1, JobsOKInit, PTL DEF JobLifecycleHolds, Jobs!Spec
  <1>2. JobsOK => (Success => Done)
    BY DEF JobsOK, DoneIfSucceeded, Left
  <1>3. Spec => [](Todo /\ Empty /\ [][Calm(t)]_vars
                        => [](Done => TableStored(t)))
    BY TableDone
  <1> HIDE DEF Empty, Todo, Done, Success
  <1>4. Spec => [](Todo /\ Empty /\ [][Calm(t)]_vars
                        => [](Success => TableStored(t)))
    BY <1>1, <1>2, <1>3, JobsRefined, PTL
  <1> QED
    BY <1>4 DEF Empty, Todo, Success

\* POST /admin/vector-store/reset and then POST /admin/ingest: what an operator
\* does to rebuild the store.  A job for a table that has been reset while
\* nobody read it brings every row back before it says "succeeded".
COROLLARY RebuildComplete ==
    ASSUME NEW j \in Runs, NEW t \in Tables
    PROVE  Spec => [](t \in run[j].todo /\ CleanSlate(t) /\ [][Calm(t)]_vars
                        => [](status[j] = "succeeded" => TableStored(t)))
  <1> DEFINE Empty == exposed[t] = {}
             Todo == t \in run[j].todo
             Success == status[j] = "succeeded"
  <1>1. Types /\ ExposedCovered /\ CleanSlate(t) => Empty
    BY CleanUnexposed
  <1>2. Spec => [](Todo /\ Empty /\ [][Calm(t)]_vars
                        => [](Success => TableStored(t)))
    BY SuccessTruthful
  <1> HIDE DEF Empty, Todo, Success
  <1>3. Spec => [](Todo /\ CleanSlate(t) /\ [][Calm(t)]_vars
                        => [](Success => TableStored(t)))
    BY <1>1, <1>2, TypesCorrect, ExposedCoveredCorrect, PTL
  <1> QED
    BY <1>3 DEF Todo, Success

-----------------------------------------------------------------------------
(* No job is left behind.                                                  *)

LEMMA LeastNatural ==
    ASSUME NEW S \in SUBSET Nat, S # {}
    PROVE  \E n \in S : \A m \in S : n <= m
  <1>1. PICK n \in S : \A m \in S : ~(<<m, n>> \in OpToRel(<, Nat))
    BY NatLessThanWellFounded, WFMin
  <1>2. \A m \in S : ~(m < n)
    BY <1>1 DEF OpToRel
  <1> QED
    BY <1>2

\* The guards of the steps a run takes by itself.
MayGoOn(j) ==
    LET me == run[j]
    IN \/ me.pc \in {"created", "scan", "flush", "mark", "failing"}
       \/ /\ me.pc = "next"
          /\ \/ me.todo = {}
             \/ \E t \in me.todo : \A u \in me.todo : t <= u
       \/ /\ me.pc = "rows"
          /\ \E p \in me.page : \A q \in me.page : p.row <= q.row

\* A run in the loop over a page has a page, and one that has returned has
\* left its verdict.
Unfinished(j) ==
    /\ run[j].pc = "rows" => run[j].page # {}
    /\ run[j].pc = "ended" => status[j] \notin {"pending", "running"}

NoneLost == \A j \in Runs : Unfinished(j)

LEMMA JInvHolds == Spec => []JInv
  <1>1. Init => JInv
    <2>1. Init => \A j \in Runs : JobShape(j)
      BY DEF Init, At, JobShape, Scanning
    <2> QED
      BY <2>1, TypeInit DEF JInv
  <1>2. JInv /\ [Next]_vars => JInv'
    BY JobNext, TypeNext DEF JInv
  <1> QED
    BY <1>1, <1>2, PTL DEF Spec

\* _run_ingestion_job: the verdict is the last thing a job does.  Once its row
\* says succeeded or failed its run takes no step any more, so that nothing it
\* fetched is stored and no cursor moved behind the client's back, and the
\* verdict itself is never taken back, whatever other runs, resets and edits do.
THEOREM VerdictFinal ==
    Spec => [][\A j \in Runs : status[j] \in Verdicts
                    => run'[j] = run[j] /\ status'[j] = status[j]]_vars
  <1>1. ASSUME JInv, [Next]_vars, NEW j \in Runs, status[j] \in Verdicts
        PROVE  run'[j] = run[j] /\ status'[j] = status[j]
    <2>1. run[j].pc \notin Scanning \cup {"new", "created", "next", "failing"}
      BY <1>1 DEF JInv, JobShape, Verdicts
    <2>2. DOMAIN run = Runs /\ DOMAIN status = Runs
      BY <1>1 DEF JInv, Types
    <2>3. ASSUME NEW i \in Runs, RunStep(i)
          PROVE  run'[j] = run[j] /\ status'[j] = status[j]
      BY <2>1, <2>2, <2>3 DEF RunStep, MarkRunning, ReadWatermark, FetchPage,
            ProcessRow, Flush, SetWatermark, Finish, Raise, MarkFailed, Scanning
    <2>4. ASSUME NEW i \in Runs, NEW requested, StartIngestion(i, requested)
          PROVE  run'[j] = run[j] /\ status'[j] = status[j]
      BY <2>1, <2>2, <2>4 DEF StartIngestion
    <2>5. ASSUME NEW i \in Runs, StartCli(i) \/ MarkFailedRaises(i) \/ Crash(i)
          PROVE  run'[j] = run[j] /\ status'[j] = status[j]
      BY <2>1, <2>2, <2>5 DEF StartCli, MarkFailedRaises, Crash
    <2>6. ASSUME NEW k \in Resets, ResetStep(k)
          PROVE  run' = run /\ status' = status
      BY <2>6 DEF ResetStep, ResetDeleteChunks, ResetNothing,
                  ResetDeleteWatermarks, ResetAborts
    <2>7. ASSUME NEW t \in Tables, NEW r \in Rows, NEW new \in RowValues(t),
                 EditSource(t, r, new)
          PROVE  run' = run /\ status' = status
      BY <2>7 DEF EditSource
    <2>8. ChatEnsuresTable \/ UNCHANGED vars => run' = run /\ status' = status
      BY DEF ChatEnsuresTable, vars
    <2> QED
      BY <1>1, <2>3, <2>4, <2>5, <2>6, <2>7, <2>8, Zenon DEF Next
  <1>2. JInv /\ [Next]_vars
            => [\A j \in Runs : status[j] \in Verdicts
                    => run'[j] = run[j] /\ status'[j] = status[j]]_vars
    BY <1>1
  <1> QED
    BY <1>2, JInvHolds, PTL DEF Spec

LEMMA UnfinishedInit == Init => NoneLost
  BY DEF Init, NoneLost, Unfinished, At

LEMMA UnfinishedFrame ==
    ASSUME NEW i \in Runs, Unfinished(i), run'[i] = run[i], status'[i] = status[i]
    PROVE  Unfinished(i)'
  BY DEF Unfinished

LEMMA UnfinishedNext ==
    JInv /\ NoneLost /\ [Next]_vars => NoneLost'
  <1> SUFFICES ASSUME JInv, NoneLost, [Next]_vars
               PROVE  \A j \in Runs : Unfinished(j)'
    BY DEF NoneLost
  <1> DEFINE Goal == \A j \in Runs : Unfinished(j)'
  <1>t. /\ run \in [Runs -> RunState]
        /\ status \in [Runs -> {"none", "pending", "running", "succeeded",
                                "failed"}]
        /\ Types /\ \A j \in Runs : Unfinished(j)
    BY DEF JInv, Types, NoneLost
  <1>q. ASSUME UNCHANGED <<status, run>> PROVE Goal
    BY <1>q, <1>t DEF Unfinished
  <1>o. ASSUME NEW j \in Runs,
               \A i \in Runs \ {j} : run'[i] = run[i] /\ status'[i] = status[i],
               Unfinished(j)'
        PROVE  Goal
    BY <1>o, <1>t, UnfinishedFrame
  <1>s. ASSUME NEW j \in Runs, FetchPage(j) \/ ProcessRow(j) \/ Flush(j)
        PROVE  Goal
    <2>1. PICK after : /\ run' = [run EXCEPT ![j] = after]
                       /\ after.pc \in Scanning
                       /\ after.pc = "rows" => after.page # {}
      BY <1>s, <1>t, LoopStep
    <2>3. status' = status
      BY <1>s DEF FetchPage, ProcessRow, Flush
    <2>2. Unfinished(j)'
      BY <1>t, <2>1 DEF Unfinished, Scanning
    <2> QED
      BY <1>o, <1>t, <2>1, <2>2, <2>3
  <1>e. ASSUME NEW j \in Runs, MarkFailed(j) \/ Finish(j)
        PROVE  Goal
    <2>1. /\ \A i \in Runs \ {j} : run'[i] = run[i] /\ status'[i] = status[i]
          /\ run'[j].pc = "ended"
          /\ status'[j] \in {"none", "succeeded", "failed"}
      BY <1>t, <1>e DEF MarkFailed, Finish, RunState
    <2> QED
      BY <1>o, <2>1 DEF Unfinished
  <1>r. ASSUME NEW j \in Runs, Raise(j)
        PROVE  Goal
    <2>1. /\ status' = status
          /\ \A i \in Runs \ {j} : run'[i] = run[i]
          /\ run'[j].pc = IF status[j] = "none" THEN "ended" ELSE "failing"
      BY <1>t, <1>r DEF Raise, At
    <2> QED
      BY <1>o, <2>1 DEF Unfinished
  <1>p. ASSUME NEW j \in Runs,
               \A i \in Runs \ {j} : run'[i] = run[i] /\ status'[i] = status[i],
               run'[j].pc \notin {"rows", "ended"}
        PROVE  Goal
    BY <1>o, <1>p DEF Unfinished
  <1>1. ASSUME NEW j \in Runs,
               \/ \E requested \in SUBSET Tables : StartIngestion(j, requested)
               \/ StartCli(j) \/ MarkRunning(j) \/ SetWatermark(j)
               \/ MarkFailedRaises(j) \/ Crash(j)
               \/ \E t \in Tables : ReadWatermark(j, t)
        PROVE  Goal
    <2>1. \A i \in Runs \ {j} : run'[i] = run[i] /\ status'[i] = status[i]
      BY <1>t, <1>1 DEF StartIngestion, StartCli, MarkRunning, SetWatermark,
                        MarkFailedRaises, Crash, ReadWatermark
    <2>2. CASE \/ \E requested \in SUBSET Tables : StartIngestion(j, requested)
               \/ StartCli(j) \/ SetWatermark(j) \/ Crash(j)
      <3>1. PICK pc \in {"created", "next", "crashed"} :
                \E todo : run' = [run EXCEPT ![j] = At(pc, todo)]
        BY <2>2 DEF StartIngestion, StartCli, SetWatermark, Crash
      <3>2. run'[j].pc = pc
        BY <1>t, <3>1 DEF At
      <3> QED
        BY <1>p, <2>1, <3>2
    <2>3. CASE \/ MarkRunning(j) \/ MarkFailedRaises(j)
               \/ \E t \in Tables : ReadWatermark(j, t)
      <3>1. run'[j].pc \notin {"rows", "ended"}
        <4>1. CASE MarkRunning(j) \/ MarkFailedRaises(j)
          BY <1>t, <4>1 DEF MarkRunning, MarkFailedRaises, RunState
        <4>2. ASSUME NEW t \in Tables, ReadWatermark(j, t)
              PROVE  run'[j].pc = "scan"
          <5>1. run[j] \in RunState
            BY <1>t
          <5>2. run' = [run EXCEPT ![j] = [run[j] EXCEPT !.pc = "scan",
                                                         !.table = t,
                                                         !.since = watermark[t]]]
            BY <1>t, <4>2 DEF ReadWatermark
          <5> QED
            BY <1>t, <5>1, <5>2 DEF RunState
        <4> QED
          BY <2>3, <4>1, <4>2
      <3> QED
        BY <1>p, <2>1, <3>1
    <2> QED
      BY <1>1, <2>2, <2>3
  <1>2. ASSUME NEW k \in Resets, ResetStep(k)
        PROVE  UNCHANGED <<status, run>>
    BY <1>2 DEF ResetStep, ResetDeleteChunks, ResetNothing,
                ResetDeleteWatermarks, ResetAborts
  <1>3. ASSUME NEW u \in Tables, NEW q \in Rows, NEW new \in RowValues(u),
               EditSource(u, q, new)
        PROVE  UNCHANGED <<status, run>>
    BY <1>3 DEF EditSource
  <1>4. ChatEnsuresTable \/ UNCHANGED vars => UNCHANGED <<status, run>>
    BY DEF ChatEnsuresTable, vars
  <1>5. Goal
    <2> HIDE DEF Goal
    <2> QED
      BY <1>q, <1>s, <1>e, <1>r, <1>1, <1>2, <1>3, <1>4, Zenon DEF Next, RunStep
  <1> QED
    BY <1>5

\* _run_ingestion_job: a job that has no verdict yet has a run that may take its
\* next step, or whose process has died, or whose except clause has failed.
\* None waits for another run, a lock or the client.  With RunsDescend it is
\* what EveryJobFinishes rests on.
THEOREM JobsServed ==
    Spec => [](\A j \in Runs : status[j] \in {"pending", "running"} =>
                  MayGoOn(j) \/ run[j].pc \in {"crashed", "escaped"})
  <1>1. JInv /\ NoneLost =>
            \A j \in Runs : status[j] \in {"pending", "running"} =>
                  MayGoOn(j) \/ run[j].pc \in {"crashed", "escaped"}
    <2> SUFFICES ASSUME JInv, NEW j \in Runs, Unfinished(j),
                        status[j] \in {"pending", "running"}
                 PROVE  MayGoOn(j) \/ run[j].pc \in {"crashed", "escaped"}
      BY DEF NoneLost
    <2>1. run[j] \in RunState
      BY DEF JInv, Types
    <2>2. run[j].pc \notin {"new", "ended"}
      BY DEF JInv, JobShape, Unfinished
    <2>3. CASE run[j].pc = "next"
      <3>1. run[j].todo \in SUBSET Nat
        BY <2>1, TablesAssumption DEF RunState
      <3> QED
        BY <2>3, <3>1, LeastNatural DEF MayGoOn
    <2>4. CASE run[j].pc = "rows"
      <3> DEFINE keys == {p.row : p \in run[j].page}
      <3>1. run[j].page \in SUBSET PageRow /\ run[j].page # {}
        BY <2>1, <2>4 DEF Unfinished, RunState
      <3>3. keys \in SUBSET Nat /\ keys # {}
        BY <3>1, RowsAssumption DEF PageRow
      <3>2. PICK n \in keys : \A m \in keys : n <= m
        BY <3>3, LeastNatural
      <3> QED
        BY <2>4, <3>2 DEF MayGoOn
    <2> QED
      BY <2>1, <2>2, <2>3, <2>4 DEF RunState, PCs, Scanning, MayGoOn
  <1>2. JInv => Types
    BY DEF JInv
  <1> QED
    BY <1>1, <1>2, JInvHolds, TypeNext, UnfinishedInit, UnfinishedNext, PTL
       DEF Spec

=============================================================================
