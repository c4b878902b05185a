-------------------------- MODULE IngestionProofs ---------------------------
(***************************************************************************)
(* Theorems about Ingestion, for every value of its constants.             *)
(***************************************************************************)
EXTENDS Ingestion, FiniteSetTheorems, TLAPS

USE DEF NoTable

-----------------------------------------------------------------------------
(* Types.                                                                  *)

\* A page of the source only holds rows that exist, with their own values.
LEMMA PageType ==
    ASSUME NEW t \in Tables, NEW since, NEW offset,
           source \in [Tables -> [Rows -> [version : 0..MaxVersion,
                                           stamp : 0..MaxStamp]]]
    PROVE  {[row |-> r, version |-> source[t][r].version,
             stamp |-> source[t][r].stamp] :
                r \in PageOf(source[t], since, offset)} \subseteq PageRow
  <1> SUFFICES ASSUME NEW r \in PageOf(source[t], since, offset)
               PROVE  [row |-> r, version |-> source[t][r].version,
                       stamp |-> source[t][r].stamp] \in PageRow
    OBVIOUS
  <1>1. r \in Rows /\ source[t][r].version # 0
    BY DEF PageOf, Matching, Qualifies, Live
  <1>2. source[t][r] \in [version : 0..MaxVersion, stamp : 0..MaxStamp]
    BY <1>1
  <1>3. /\ source[t][r].version \in 1..MaxVersion
        /\ source[t][r].stamp \in 0..MaxStamp
    BY <1>1, <1>2, BoundsAssumption
  <1> QED
    BY <1>1, <1>3 DEF PageRow

\* The chunks of a row are numbered from 0, below the row's chunk count.
LEMMA ChunksType ==
    ASSUME NEW p \in PageRow, NEW at \in Nat
    PROVE  ChunksOf(p, at) \subseteq Chunk
  BY ChunkCountAssumption, BoundsAssumption
     DEF ChunksOf, PageRow, Chunk, Index

\* An upsert keeps the shape of a table's chunks.
LEMMA UpsertType ==
    ASSUME NEW rows \in [Rows -> [Index -> 0..MaxVersion]],
           NEW chunks \in SUBSET Chunk
    PROVE  Upserted(rows, chunks) \in [Rows -> [Index -> 0..MaxVersion]]
  <1> SUFFICES ASSUME NEW r \in Rows, NEW i \in Index,
                      \E c \in chunks : c.row = r /\ c.index = i
               PROVE  (CHOOSE c \in chunks : c.row = r /\ c.index = i).version
                            \in 0..MaxVersion
    BY DEF Upserted
  <1> DEFINE c == CHOOSE c \in chunks : c.row = r /\ c.index = i
  <1>1. c \in chunks
    OBVIOUS
  <1>2. c.version \in 1..MaxVersion
    BY <1>1 DEF Chunk
  <1> QED
    BY <1>2, BoundsAssumption

LEMMA ResumeType ==
    ASSUME NEW page, NEW pending, NEW eof
    PROVE  Resume(page, pending, eof) \in Scanning
  BY DEF Resume, Scanning

LEMMA AtType ==
    ASSUME NEW pc \in PCs, NEW todo \in SUBSET Tables
    PROVE  At(pc, todo) \in RunState
  BY BoundsAssumption DEF At, RunState

LEMMA ExposedType ==
    ASSUME exposed \in [Tables -> SUBSET Rows], NEW j, NEW marks
    PROVE  ExposedAfter(j, marks) \in [Tables -> SUBSET Rows]
  BY DEF ExposedAfter, Settle

LEMMA TypeInit == Init => Types
  <1> SUFFICES ASSUME Init PROVE Types
    OBVIOUS
  <1>1. source \in [Tables -> [Rows -> [version : 0..MaxVersion,
                                        stamp : 0..MaxStamp]]]
    <2>1. \A t \in Tables : RowValues(t) \subseteq
                [version : 0..MaxVersion, stamp : 0..MaxStamp]
      BY BoundsAssumption DEF RowValues, Absent
    <2> QED
      BY <2>1 DEF Init
  <1>2. store \in [Tables -> [Rows -> [Index -> 0..MaxVersion]]]
    BY BoundsAssumption DEF Init, NoChunks
  <1>3. run \in [Runs -> RunState]
    BY AtType DEF Init, PCs
  <1>4. \A j \in Runs : run[j].pc \notin Scanning
    BY DEF Init, At, Scanning
  <1>5. \A t \in Tables, r \in Rows : source[t][r] \in RowValues(t)
    <2>1. \A t \in Tables, r \in Rows :
                source[t][r] \in FirstRows[t] \cap RowValues(t)
      BY Zenon DEF Init
    <2> QED
      BY <2>1
  <1>6. /\ watermark \in [Tables -> 0..MaxStamp]
        /\ edits \in 0..MaxEdits
        /\ faults \in 0..MaxFaults
        /\ exposed \in [Tables -> SUBSET Rows]
    BY BoundsAssumption DEF Init
  <1>7. /\ chunksTable \in BOOLEAN
        /\ status \in [Runs -> {"none", "pending", "running", "succeeded",
                                "failed"}]
    BY DEF Init
  <1>8. reset \in [Resets -> [pc : {"idle", "deleting", "answered", "aborted"},
                              scope : SUBSET Tables]]
    BY DEF Init
  <1> QED
    BY <1>1, <1>2, <1>3, <1>4, <1>5, <1>6, <1>7, <1>8 DEF Types

\* The run-local part of Types, restored when one run takes a step.
RunsTyped ==
    /\ run \in [Runs -> RunState]
    /\ \A j \in Runs : run[j].pc \in Scanning => run[j].table \in run[j].todo

LEMMA RunType ==
    ASSUME Types, NEW j \in Runs, NEW new \in RunState,
           run' = [run EXCEPT ![j] = new],
           new.pc \in Scanning => new.table \in new.todo
    PROVE  RunsTyped'
  BY DEF Types, RunsTyped

LEMMA PcType ==
    ASSUME NEW me \in RunState, NEW pc \in PCs
    PROVE  /\ [me EXCEPT !.pc = pc] \in RunState
           /\ [me EXCEPT !.pc = pc].pc = pc
           /\ [me EXCEPT !.pc = pc].table = me.table
           /\ [me EXCEPT !.pc = pc].todo = me.todo
  BY DEF RunState

LEMMA TypeNext == Types /\ [Next]_vars => Types'
  <1> SUFFICES ASSUME Types, [Next]_vars PROVE Types'
    OBVIOUS
  <1>t. /\ run \in [Runs -> RunState]
        /\ exposed \in [Tables -> SUBSET Rows]
        /\ store \in [Tables -> [Rows -> [Index -> 0..MaxVersion]]]
        /\ \A j \in Runs : run[j].pc \in Scanning
                              => run[j].table \in run[j].todo
        /\ \A j \in Runs : run[j] \in RunState
    BY DEF Types
  <1>1. ASSUME NEW j \in Runs, NEW requested \in SUBSET Tables,
               StartIngestion(j, requested)
        PROVE  Types'
    <2> DEFINE new == At("created", IF requested = {} THEN Tables
                                                     ELSE requested)
    <2>1. new \in RunState /\ new.pc \notin Scanning
      BY AtType DEF PCs, At, Scanning
    <2>2. run' = [run EXCEPT ![j] = new]
      BY <1>1 DEF StartIngestion
    <2>3. RunsTyped'
      BY <2>1, <2>2, RunType
    <2> QED
      BY <1>1, <2>3 DEF StartIngestion, Types, RunsTyped
  <1>2. ASSUME NEW j \in Runs, StartCli(j)
        PROVE  Types'
    <2> DEFINE new == At("next", Tables)
    <2>1. new \in RunState /\ new.pc \notin Scanning
      BY AtType DEF PCs, At, Scanning
    <2>2. run' = [run EXCEPT ![j] = new]
      BY <1>2 DEF StartCli
    <2>3. RunsTyped'
      BY <2>1, <2>2, RunType
    <2> QED
      BY <1>2, <2>3 DEF StartCli, Types, RunsTyped
  <1>3. ASSUME NEW j \in Runs, MarkRunning(j)
        PROVE  Types'
    <2> DEFINE new == [run[j] EXCEPT !.pc = "next"]
    <2>1. new \in RunState /\ new.pc \notin Scanning
      <3>1. run[j] \in RunState
        BY <1>t
      <3>2. "next" \in PCs /\ "next" \notin Scanning
        BY DEF PCs, Scanning
      <3> QED
        BY <3>1, <3>2, PcType
    <2>2. run' = [run EXCEPT ![j] = new]
      BY <1>3, <1>t DEF MarkRunning
    <2>3. RunsTyped'
      BY <2>1, <2>2, RunType
    <2> QED
      BY <1>3, <2>3 DEF MarkRunning, Types, RunsTyped
  <1>4. ASSUME NEW j \in Runs, NEW t \in Tables, ReadWatermark(j, t)
        PROVE  Types'
    <2> DEFINE new == [run[j] EXCEPT !.pc = "scan", !.table = t,
                                     !.since = watermark[t]]
    <2>1. watermark[t] \in 0..MaxStamp /\ t \in run[j].todo
      BY <1>4 DEF Types, ReadWatermark
    <2>2. new \in RunState /\ new.table \in new.todo
      BY <1>t, <2>1 DEF RunState, PCs, Scanning
    <2>3. run' = [run EXCEPT ![j] = new]
      BY <1>4, <1>t DEF ReadWatermark
    <2>4. RunsTyped'
      BY <2>2, <2>3, RunType
    <2> QED
      BY <1>4, <2>4 DEF ReadWatermark, Types, RunsTyped
  <1>5. ASSUME NEW j \in Runs, FetchPage(j)
        PROVE  Types'
    <2> DEFINE me == run[j]
               rows == source[me.table]
               found == PageOf(rows, me.since, me.offset)
               page == {[row |-> r, version |-> rows[r].version,
                         stamp |-> rows[r].stamp] : r \in found}
               eof == Cardinality(found) < BatchSize
               new == [me EXCEPT !.pc = Resume(page, me.pending, eof),
                                 !.page = page, !.eof = eof,
                                 !.offset = IF eof THEN @ ELSE @ + BatchSize]
    <2>1. me.pc = "scan" /\ run' = [run EXCEPT ![j] = new]
      BY <1>5, Zenon DEF FetchPage
    <2>2. me \in RunState /\ me.table \in Tables /\ me.table \in me.todo
      BY <1>t, <2>1 DEF RunState, Scanning
    <2>3. page \subseteq PageRow
      <3> HIDE DEF me
      <3> QED
        BY <2>2, PageType DEF Types
    <2>4. Resume(page, me.pending, eof) \in Scanning
      BY ResumeType
    <2>5. (IF eof THEN me.offset ELSE me.offset + BatchSize) \in Nat
      BY <2>2, BatchSizeAssumption DEF RunState
    <2>6. new \in RunState /\ new.table \in new.todo
      <3> HIDE DEF me, page, eof
      <3>1. eof \in BOOLEAN
        BY DEF eof
      <3> QED
        BY <2>2, <2>3, <2>4, <2>5, <3>1 DEF RunState, PCs
    <2>7. RunsTyped'
      <3> HIDE DEF new
      <3> QED
        BY <2>1, <2>6, RunType
    <2> QED
      BY <1>5, <2>7 DEF FetchPage, Types, RunsTyped
  <1>6. ASSUME NEW j \in Runs, ProcessRow(j)
        PROVE  Types'
    <2> DEFINE me == run[j]
    <2>1. me \in RunState /\ me.pc = "rows" /\ me.table \in me.todo
      BY <1>6, <1>t DEF ProcessRow, Scanning
    <2>2. PICK p \in me.page :
            run' = [run EXCEPT ![j] =
              [me EXCEPT
                 !.pc = IF Cardinality(me.pending \cup ChunksOf(p, me.offset))
                                >= BatchSize
                        THEN "flush"
                        ELSE Resume(me.page \ {p},
                                    me.pending \cup ChunksOf(p, me.offset),
                                    me.eof),
                 !.page = me.page \ {p},
                 !.pending = me.pending \cup ChunksOf(p, me.offset),
                 !.max = IF p.stamp > @ THEN p.stamp ELSE @]]
      BY <1>6, Zenon DEF ProcessRow
    <2> DEFINE pending == me.pending \cup ChunksOf(p, me.offset)
               pc == IF Cardinality(pending) >= BatchSize THEN "flush"
                     ELSE Resume(me.page \ {p}, pending, me.eof)
               max == IF p.stamp > me.max THEN p.stamp ELSE me.max
               new == [me EXCEPT !.pc = pc, !.page = me.page \ {p},
                                 !.pending = pending, !.max = max]
    <2>3. p \in PageRow /\ me.offset \in Nat
      BY <2>1 DEF RunState
    <2>4. pending \subseteq Chunk
      BY <2>1, <2>3, ChunksType DEF RunState
    <2>5. pc \in Scanning
      BY ResumeType DEF Scanning
    <2>6. max \in 0..MaxStamp
      BY <2>1, <2>3 DEF RunState, PageRow
    <2>7. new \in RunState /\ new.table \in new.todo
      <3> HIDE DEF me, pending, pc, max
      <3> QED
        BY <2>1, <2>4, <2>5, <2>6 DEF RunState, PCs
    <2>8. RunsTyped'
      <3>1. run' = [run EXCEPT ![j] = new]
        BY <2>2
      <3> HIDE DEF new
      <3> QED
        BY <3>1, <2>7, RunType
    <2> QED
      BY <1>6, <2>8 DEF ProcessRow, Types, RunsTyped
  <1>7. ASSUME NEW j \in Runs, Flush(j)
        PROVE  Types'
    <2> DEFINE me == run[j]
               new == [me EXCEPT !.pc = Resume(me.page, {}, me.eof),
                                 !.pending = {}]
    <2>1. me \in RunState /\ me.table \in Tables /\ me.table \in me.todo
      BY <1>7, <1>t DEF Flush, RunState, Scanning
    <2>2. Resume(me.page, {}, me.eof) \in PCs
      BY ResumeType DEF PCs
    <2>3. new \in RunState /\ new.table \in new.todo
      <3> HIDE DEF me
      <3> QED
        BY <2>1, <2>2 DEF RunState
    <2>4. RunsTyped'
      <3>1. run' = [run EXCEPT ![j] = new]
        BY <1>7 DEF Flush
      <3> HIDE DEF new
      <3> QED
        BY <3>1, <2>3, RunType
    <2>5. store' \in [Tables -> [Rows -> [Index -> 0..MaxVersion]]]
      <3>1. store[me.table] \in [Rows -> [Index -> 0..MaxVersion]]
        BY <1>t, <2>1
      <3>2. Upserted(store[me.table], me.pending)
                \in [Rows -> [Index -> 0..MaxVersion]]
        <4> HIDE DEF me
        <4> QED
          BY <2>1, <3>1, UpsertType DEF RunState
      <3>3. store' = [store EXCEPT ![me.table] =
                            Upserted(store[me.table], me.pending)]
        BY <1>7 DEF Flush
      <3> QED
        BY <1>t, <3>2, <3>3
    <2> QED
      BY <1>7, <2>4, <2>5 DEF Flush, Types, RunsTyped
  <1>8. ASSUME NEW j \in Runs, SetWatermark(j)
        PROVE  Types'
    <2> DEFINE me == run[j]
               new == At("next", me.todo \ {me.table})
    <2>1. me \in RunState
      BY <1>t
    <2>2. new \in RunState /\ new.pc \notin Scanning
      BY <2>1, AtType DEF PCs, At, Scanning, RunState
    <2>3. RunsTyped'
      <3>1. run' = [run EXCEPT ![j] = new]
        BY <1>8 DEF SetWatermark
      <3> HIDE DEF new
      <3> QED
        BY <3>1, <2>2, RunType
    <2>4. watermark' \in [Tables -> 0..MaxStamp]
      <3>1. me.max \in 0..MaxStamp
        BY <2>1 DEF RunState
      <3> QED
        BY <1>8, <3>1 DEF SetWatermark, Types
    <2>5. exposed' \in [Tables -> SUBSET Rows]
      BY <1>8, <1>t, ExposedType DEF SetWatermark
    <2> QED
      BY <1>8, <2>3, <2>4, <2>5 DEF SetWatermark, Types, RunsTyped
  <1>9. ASSUME NEW j \in Runs, Finish(j)
        PROVE  Types'
    <2> DEFINE new == [run[j] EXCEPT !.pc = "ended"]
    <2>1. new \in RunState /\ new.pc \notin Scanning
      <3>1. run[j] \in RunState
        BY <1>t
      <3>2. "ended" \in PCs /\ "ended" \notin Scanning
        BY DEF PCs, Scanning
      <3> QED
        BY <3>1, <3>2, PcType
    <2>2. run' = [run EXCEPT ![j] = new]
      BY <1>9, <1>t DEF Finish
    <2>3. RunsTyped'
      BY <2>1, <2>2, RunType
    <2> QED
      BY <1>9, <2>3 DEF Finish, Types, RunsTyped
  <1>10. ASSUME NEW j \in Runs, Raise(j)
         PROVE  Types'
    <2> DEFINE new == At(IF status[j] = "none" THEN "ended" ELSE "failing",
                         run[j].todo)
    <2>1. new \in RunState /\ new.pc \notin Scanning
      BY <1>t, AtType DEF PCs, At, Scanning, RunState
    <2>2. run' = [run EXCEPT ![j] = new]
      BY <1>10 DEF Raise
    <2>3. RunsTyped'
      BY <2>1, <2>2, RunType
    <2>4. exposed' \in [Tables -> SUBSET Rows]
      BY <1>10, <1>t, ExposedType DEF Raise
    <2> QED
      BY <1>10, <2>3, <2>4 DEF Raise, Types, RunsTyped
  <1>11. ASSUME NEW j \in Runs, MarkFailed(j)
         PROVE  Types'
    <2> DEFINE new == [run[j] EXCEPT !.pc = "ended"]
    <2>1. new \in RunState /\ new.pc \notin Scanning
      <3>1. run[j] \in RunState
        BY <1>t
      <3>2. "ended" \in PCs /\ "ended" \notin Scanning
        BY DEF PCs, Scanning
      <3> QED
        BY <3>1, <3>2, PcType
    <2>2. run' = [run EXCEPT ![j] = new]
      BY <1>11, <1>t DEF MarkFailed
    <2>3. RunsTyped'
      BY <2>1, <2>2, RunType
    <2> QED
      BY <1>11, <2>3 DEF MarkFailed, Types, RunsTyped
  <1>12. ASSUME NEW j \in Runs, MarkFailedRaises(j)
         PROVE  Types'
    <2> DEFINE new == [run[j] EXCEPT !.pc = "escaped"]
    <2>1. new \in RunState /\ new.pc \notin Scanning
      <3>1. run[j] \in RunState
        BY <1>t
      <3>2. "escaped" \in PCs /\ "escaped" \notin Scanning
        BY DEF PCs, Scanning
      <3> QED
        BY <3>1, <3>2, PcType
    <2>2. run' = [run EXCEPT ![j] = new]
      BY <1>12, <1>t DEF MarkFailedRaises
    <2>3. RunsTyped'
      BY <2>1, <2>2, RunType
    <2>4. faults' \in 0..MaxFaults
      BY <1>12, BoundsAssumption DEF MarkFailedRaises, Types
    <2> QED
      BY <1>12, <2>3, <2>4 DEF MarkFailedRaises, Types, RunsTyped
  <1>13. ASSUME NEW j \in Runs, Crash(j)
         PROVE  Types'
    <2> DEFINE new == At("crashed", run[j].todo)
    <2>1. new \in RunState /\ new.pc \notin Scanning
      BY <1>t, AtType DEF PCs, At, Scanning, RunState
    <2>2. run' = [run EXCEPT ![j] = new]
      BY <1>13 DEF Crash
    <2>3. RunsTyped'
      BY <2>1, <2>2, RunType
    <2>4. faults' \in 0..MaxFaults
      BY <1>13, BoundsAssumption DEF Crash, Types
    <2>5. exposed' \in [Tables -> SUBSET Rows]
      BY <1>13, <1>t, ExposedType DEF Crash
    <2> QED
      BY <1>13, <2>3, <2>4, <2>5 DEF Crash, Types, RunsTyped
  <1>14. ASSUME NEW k \in Resets, ResetStep(k)
         PROVE  Types'
    <2>1. ASSUME NEW requested \in SUBSET Tables,
                 ResetDeleteChunks(k, requested)
          PROVE  Types'
      <3>1. NoChunks \in [Rows -> [Index -> 0..MaxVersion]]
        BY BoundsAssumption DEF NoChunks
      <3>2. store' \in [Tables -> [Rows -> [Index -> 0..MaxVersion]]]
        BY <2>1, <1>t, <3>1 DEF ResetDeleteChunks
      <3>3. exposed' \in [Tables -> SUBSET Rows]
        BY <2>1, <1>t DEF ResetDeleteChunks, Settle
      <3> QED
        BY <2>1, <3>2, <3>3 DEF ResetDeleteChunks, Types
    <2>2. ASSUME NEW requested \in SUBSET Tables, ResetNothing(k, requested)
          PROVE  Types'
      BY <2>2 DEF ResetNothing, Types
    <2>3. ASSUME ResetDeleteWatermarks(k)
          PROVE  Types'
      <3>1. exposed' \in [Tables -> SUBSET Rows]
        BY <2>3, <1>t DEF ResetDeleteWatermarks, Settle
      <3>2. watermark' \in [Tables -> 0..MaxStamp]
        BY <2>3, BoundsAssumption DEF ResetDeleteWatermarks, Types
      <3> QED
        BY <2>3, <3>1, <3>2 DEF ResetDeleteWatermarks, Types
    <2>4. ASSUME ResetAborts(k)
          PROVE  Types'
      <3>1. reset' \in [Resets -> [pc : {"idle", "deleting", "answered",
                                         "aborted"},
                                   scope : SUBSET Tables]]
        BY <2>4 DEF ResetAborts, Types
      <3>2. faults' \in 0..MaxFaults
        BY <2>4, BoundsAssumption DEF ResetAborts, Types
      <3> QED
        BY <2>4, <3>1, <3>2 DEF ResetAborts, Types
    <2> QED
      BY <1>14, <2>1, <2>2, <2>3, <2>4 DEF ResetStep
  <1>15. ASSUME ChatEnsuresTable
         PROVE  Types'
    BY <1>15 DEF ChatEnsuresTable, Types
  <1>16. ASSUME NEW t \in Tables, NEW r \in Rows, NEW new \in RowValues(t),
                EditSource(t, r, new)
         PROVE  Types'
    <2>1. new \in [version : 0..MaxVersion, stamp : 0..MaxStamp]
      BY BoundsAssumption DEF RowValues, Absent
    <2>2. source' = [source EXCEPT ![t][r] = new]
      BY <1>16 DEF EditSource
    <2>3. /\ source' \in [Tables -> [Rows -> [version : 0..MaxVersion,
                                              stamp : 0..MaxStamp]]]
          /\ \A u \in Tables, q \in Rows : source'[u][q] \in RowValues(u)
      BY <2>1, <2>2 DEF Types
    <2>4. exposed' \in [Tables -> SUBSET Rows]
      BY <1>16, <1>t DEF EditSource, Settle
    <2>5. edits' \in 0..MaxEdits
      BY <1>16, BoundsAssumption DEF EditSource, Types
    <2> QED
      BY <1>16, <2>3, <2>4, <2>5 DEF EditSource, Types
  <1>17. CASE UNCHANGED vars
    BY <1>17 DEF vars, Types
  <1> QED
    BY <1>1, <1>2, <1>3, <1>4, <1>5, <1>6, <1>7, <1>8, <1>9, <1>10, <1>11,
       <1>12, <1>13, <1>14, <1>15, <1>16, <1>17 DEF Next, RunStep

LEMMA TypesCorrect == Spec => []Types
  <1> QED
    BY TypeInit, TypeNext, PTL DEF Spec

-----------------------------------------------------------------------------
(* Ranks: what LIMIT and OFFSET count.                                     *)

LEMMA UnionBound ==
    ASSUME NEW S, NEW T, IsFiniteSet(S), IsFiniteSet(T)
    PROVE  /\ IsFiniteSet(S \cup T)
           /\ Cardinality(S \cup T) <= Cardinality(S) + Cardinality(T)
  <1>1. IsFiniteSet(S \cap T)
    BY FS_Intersection
  <1>2. /\ Cardinality(S) \in Nat /\ Cardinality(T) \in Nat
        /\ Cardinality(S \cap T) \in Nat
    BY <1>1, FS_CardinalityType
  <1>3. /\ IsFiniteSet(S \cup T)
        /\ Cardinality(S \cup T) =
                Cardinality(S) + Cardinality(T) - Cardinality(S \cap T)
    BY FS_Union
  <1> QED
    BY <1>2, <1>3

LEMMA RankType ==
    ASSUME NEW S \in SUBSET Rows, NEW r \in Rows
    PROVE  /\ IsFiniteSet({q \in S : q <= r})
           /\ Rank(S, r) \in Nat
  <1>1. IsFiniteSet(S)
    BY RowsAssumption, FS_Subset
  <1>2. IsFiniteSet({q \in S : q <= r})
    BY <1>1, FS_Subset
  <1> QED
    BY <1>2, FS_CardinalityType DEF Rank

\* A larger set ranks a row no lower.
LEMMA RankGrows ==
    ASSUME NEW T \in SUBSET Rows, NEW r \in Rows, NEW S,
           {q \in S : q <= r} \subseteq {q \in T : q <= r}
    PROVE  Rank(S, r) <= Rank(T, r)
  BY RankType, FS_Subset DEF Rank

LEMMA RankGrowsBoth ==
    ASSUME NEW S \in SUBSET Rows, NEW q \in Rows, NEW r \in Rows, q <= r
    PROVE  Rank(S, q) <= Rank(S, r)
  <1> DEFINE Q == {x \in S : x <= q}
             R == {x \in S : x <= r}
  <1>1. Q \in SUBSET R
    <2>1. ASSUME NEW x \in S, x <= q
          PROVE  x <= r
      <3>1. x \in Nat /\ q \in Nat /\ r \in Nat
        BY RowsAssumption
      <3> QED
        BY <2>1, <3>1
    <2> QED
      BY <2>1
  <1>2. IsFiniteSet(R)
    BY RankType
  <1> HIDE DEF Q, R
  <1>3. Cardinality(Q) <= Cardinality(R)
    BY <1>1, <1>2, FS_Subset
  <1> QED
    BY <1>3 DEF Q, R, Rank

LEMMA RankStrict ==
    ASSUME NEW S \in SUBSET Rows, NEW q \in S, NEW r \in S, q < r
    PROVE  Rank(S, q) < Rank(S, r)
  <1> DEFINE Q == {x \in S : x <= q}
             R == {x \in S : x <= r}
  <1>1. S \subseteq Nat
    BY RowsAssumption
  <1>2. Q \subseteq R /\ r \in R /\ r \notin Q
    <2>1. ASSUME NEW x \in S, x <= q
          PROVE  x <= r
      <3>1. x \in Nat /\ q \in Nat /\ r \in Nat
        BY <1>1
      <3> QED
        BY <2>1, <3>1
    <2>2. r <= r /\ ~(r <= q)
      <3>1. q \in Nat /\ r \in Nat
        BY <1>1
      <3> QED
        BY <3>1
    <2> QED
      BY <2>1, <2>2
  <1>3. IsFiniteSet(R) /\ Rank(S, q) \in Nat /\ Rank(S, r) \in Nat
    BY RankType
  <1>4. Cardinality(Q) <= Cardinality(R) /\ Cardinality(Q) # Cardinality(R)
    <2> HIDE DEF Q, R
    <2> QED
      BY <1>2, <1>3, FS_Subset
  <1>5. Rank(S, q) = Cardinality(Q) /\ Rank(S, r) = Cardinality(R)
    BY DEF Rank
  <1> HIDE DEF Q, R
  <1> QED
    BY <1>3, <1>4, <1>5

\* No two rows of a set share a rank, so the rows ranked in a window are no
\* more than the window is long.
LEMMA RankWindow ==
    ASSUME NEW S \in SUBSET Rows, NEW a \in Nat, NEW b \in Nat, a <= b,
           NEW W \in SUBSET S,
           \A q \in W : a < Rank(S, q) /\ Rank(S, q) <= b
    PROVE  IsFiniteSet(W) /\ Cardinality(W) \in Nat /\ Cardinality(W) <= b - a
  <1> DEFINE f == [q \in W |-> Rank(S, q)]
  <1>1. \A q \in W : Rank(S, q) \in Nat
    BY RankType
  <1>2. f \in [W -> (a + 1)..b]
    BY <1>1
  <1>3. ASSUME NEW q \in W, NEW r \in W, f[q] = f[r]
        PROVE  q = r
    <2>1. q \in Nat /\ r \in Nat
      BY RowsAssumption
    <2>2. ~(q < r) /\ ~(r < q)
      BY <1>1, <1>3, RankStrict
    <2> QED
      BY <2>1, <2>2
  <1>4. f \in Injection(W, (a + 1)..b)
    <2> HIDE DEF f
    <2>1. IsInjective(f)
      BY <1>2, <1>3 DEF IsInjective
    <2> QED
      BY <1>2, <2>1 DEF Injection
  <1>5. IsFiniteSet((a + 1)..b) /\ Cardinality((a + 1)..b) = b - a
    <2> DEFINE c == a + 1
    <2>1. c \in Int /\ b \in Int /\ c <= b + 1 /\ b - c + 1 = b - a
          /\ (c > b => b - a = 0)
      OBVIOUS
    <2> HIDE DEF c
    <2>2. /\ IsFiniteSet(c..b)
          /\ Cardinality(c..b) = IF c > b THEN 0 ELSE b - c + 1
      BY <2>1, FS_Interval
    <2>3. IsFiniteSet(c..b) /\ Cardinality(c..b) = b - a
      BY <2>1, <2>2
    <2> QED
      BY <2>3 DEF c
  <1>6. IsFiniteSet(W) /\ Cardinality(W) <= b - a
    BY <1>4, <1>5, FS_Injection
  <1> QED
    BY <1>6, FS_CardinalityType

\* A page followed by another row is full: when iter_rows stops at a short
\* page, no row of the result is left behind it.
LEMMA FullPage ==
    ASSUME NEW rows, NEW since, NEW offset \in Nat,
           NEW r \in Matching(rows, since),
           offset < Rank(Matching(rows, since), r),
           r \notin PageOf(rows, since, offset)
    PROVE  /\ ~(Cardinality(PageOf(rows, since, offset)) < BatchSize)
           /\ offset + BatchSize < Rank(Matching(rows, since), r)
  <1> DEFINE S == Matching(rows, since)
             n == Rank(S, r)
             end == offset + BatchSize
             P == PageOf(rows, since, offset)
             A == {q \in S : q <= r}
             L == {q \in A : Rank(S, q) <= offset}
             M == {q \in A : offset < Rank(S, q) /\ Rank(S, q) <= end}
             H == {q \in A : end < Rank(S, q)}
  <1>1. S \in SUBSET Rows /\ r \in S
    BY DEF Matching
  <1>2. n \in Nat /\ end \in Nat /\ offset <= end /\ IsFiniteSet(A)
    BY <1>1, RankType, BatchSizeAssumption
  <1>3. end < n
    BY <1>1, <1>2 DEF PageOf
  <1>4. \A q \in A : Rank(S, q) \in Nat /\ 0 < Rank(S, q) /\ Rank(S, q) <= n
    <2> SUFFICES ASSUME NEW q \in A
                 PROVE  Rank(S, q) \in Nat /\ 0 < Rank(S, q)
                        /\ Rank(S, q) <= n
      OBVIOUS
    <2>1. q \in S /\ q \in Rows /\ r \in Rows /\ q <= r
      BY <1>1
    <2>2. Rank(S, q) \in Nat /\ IsFiniteSet({x \in S : x <= q})
      BY <1>1, <2>1, RankType
    <2>3. q \in {x \in S : x <= q}
      BY <2>1, RowsAssumption
    <2>4. Rank(S, q) # 0
      BY <2>2, <2>3, FS_EmptySet DEF Rank
    <2>5. Rank(S, q) <= n
      <3> HIDE DEF S
      <3> QED
        BY <1>1, <2>1, RankGrowsBoth
    <2> QED
      BY <2>2, <2>4, <2>5
  <1>5. IsFiniteSet(L) /\ Cardinality(L) \in Nat /\ Cardinality(L) <= offset
    <2>1. L \in SUBSET S /\ \A q \in L : 0 < Rank(S, q) /\ Rank(S, q) <= offset
      BY <1>4
    <2> HIDE DEF S, L
    <2>2. Cardinality(L) <= offset - 0
      BY <2>1, <1>1, RankWindow
    <2> QED
      BY <2>1, <2>2, <1>1, RankWindow
  <1>6. IsFiniteSet(H) /\ Cardinality(H) \in Nat /\ Cardinality(H) <= n - end
    <2>1. H \in SUBSET S /\ \A q \in H : end < Rank(S, q) /\ Rank(S, q) <= n
      BY <1>4
    <2> HIDE DEF S, H, n, end
    <2> QED
      BY <2>1, <1>1, <1>2, <1>3, RankWindow
  <1>7. /\ IsFiniteSet(P) /\ Cardinality(P) \in Nat
        /\ IsFiniteSet(M) /\ Cardinality(M) <= Cardinality(P)
    <2>1. P \in SUBSET Rows /\ M \in SUBSET P
      BY <1>1 DEF PageOf
    <2>2. IsFiniteSet(P)
      BY <2>1, RowsAssumption, FS_Subset
    <2> HIDE DEF P, M
    <2> QED
      BY <2>1, <2>2, FS_Subset, FS_CardinalityType
  <1>8. A = (L \cup M) \cup H
    BY <1>2, <1>4
  <1>9. n <= Cardinality(L) + Cardinality(P) + Cardinality(H)
    <2> HIDE DEF L, M, H, P, A
    <2>1. /\ IsFiniteSet(L \cup M)
          /\ Cardinality(L \cup M) <= Cardinality(L) + Cardinality(M)
      BY <1>5, <1>7, UnionBound
    <2>2. Cardinality(A) <= Cardinality(L \cup M) + Cardinality(H)
      BY <2>1, <1>6, <1>8, UnionBound
    <2>3. n = Cardinality(A)
      BY DEF A, Rank
    <2>4. /\ Cardinality(A) \in Nat /\ Cardinality(L \cup M) \in Nat
          /\ Cardinality(M) \in Nat
      BY <1>2, <1>7, <2>1, FS_CardinalityType
    <2> QED
      BY <1>5, <1>6, <1>7, <2>1, <2>2, <2>3, <2>4
  <1>10. BatchSize <= Cardinality(P)
    <2> HIDE DEF L, H, P, n
    <2> QED
      BY <1>2, <1>5, <1>6, <1>7, <1>9, BatchSizeAssumption
  <1> QED
    BY <1>3, <1>7, <1>10, BatchSizeAssumption

-----------------------------------------------------------------------------
(* The inductive invariant: WatermarkSound holds because a scan accounts    *)
(* for every row (ScanProgress), and that needs the local control of a run *)
(* (Shape): which variables of the loop are still in use at which pc.      *)

Shape(j) ==
    LET me == run[j]
    IN /\ me.pc \notin Scanning => /\ me.page = {}
                                   /\ me.pending = {}
                                   /\ me.eof = FALSE
                                   /\ me.offset = 0
       /\ me.pc = "scan" => me.page = {} /\ me.eof = FALSE
       /\ me.pc = "mark" => me.page = {} /\ me.pending = {} /\ me.eof = TRUE

IInv ==
    /\ Types
    /\ \A j \in Runs : Shape(j)
    /\ ScanProgress
    /\ WatermarkSound

LEMMA ResumeShape ==
    ASSUME NEW page, NEW pending, NEW eof \in BOOLEAN
    PROVE  /\ Resume(page, pending, eof) = "scan" => page = {} /\ eof = FALSE
           /\ Resume(page, pending, eof) = "mark" =>
                    page = {} /\ pending = {} /\ eof = TRUE
  BY DEF Resume

\* The account of run j after a step that leaves it at new.
LEMMA ProgressIntro ==
    ASSUME NEW j \in Runs, NEW new, run'[j] = new,
           NEW t, new.table = t,
           NEW rows, source'[t] = rows,
           UNCHANGED <<store, exposed>>, source' = source,
           \A p \in new.page \cup new.pending :
                p.row \notin exposed[t] => p.version = rows[p.row].version,
           \A r \in Rows \ exposed[t] : Live(rows[r]) =>
                \/ Stored(t, r)
                \/ \E p \in new.page : p.row = r
                \/ \A i \in Index : i < ChunkCount[r][rows[r].version]
                      => \E c \in new.pending : c.row = r /\ c.index = i
                \/ /\ ~new.eof
                   /\ r \in Matching(rows, new.since)
                   /\ new.offset < Rank(Matching(rows, new.since), r)
    PROVE  Progress(j)'
  BY DEF Progress, Stored

\* A run that does not move keeps its account of the table as long as the
\* source it reads, the rows it owes and what is stored of them stay.
LEMMA ProgressFrame ==
    ASSUME NEW i \in Runs, Progress(i), run'[i] = run[i],
           run[i].pc \in Scanning =>
             /\ source'[run[i].table] = source[run[i].table]
             /\ exposed[run[i].table] \subseteq exposed'[run[i].table]
             /\ \A r \in Rows \ exposed[run[i].table] :
                   \A k \in Index :
                     store[run[i].table][r][k] = source[run[i].table][r].version
                       => store'[run[i].table][r][k]
                              = source[run[i].table][r].version
    PROVE  Progress(i)'
  BY DEF Progress, Stored

\* Steps outside the loop of _ingest_table that touch neither the source nor
\* the chunks, the watermarks and the history.
LEMMA QuietStep ==
    ASSUME IInv, NEW j \in Runs, NEW new,
           run' = [run EXCEPT ![j] = new],
           new.pc \notin Scanning,
           new.page = {}, new.pending = {}, new.eof = FALSE, new.offset = 0,
           UNCHANGED <<source, store, watermark, exposed>>
    PROVE  /\ \A i \in Runs : Shape(i)'
           /\ ScanProgress'
           /\ WatermarkSound'
  <1>1. run \in [Runs -> RunState]
    BY DEF IInv, Types
  <1>2. run'[j] = new /\ \A i \in Runs \ {j} : run'[i] = run[i]
    BY <1>1
  <1>3. \A i \in Runs : Shape(i)'
    BY <1>2 DEF IInv, Shape, Scanning
  <1>4. ASSUME NEW i \in Runs PROVE Progress(i)'
    <2>1. CASE i = j
      BY <2>1, <1>2 DEF Progress
    <2>2. CASE i # j
      BY <2>2, <1>2, ProgressFrame DEF IInv, ScanProgress
    <2> QED
      BY <2>1, <2>2
  <1>5. WatermarkSound'
    BY DEF IInv, WatermarkSound, Stored
  <1> QED
    BY <1>3, <1>4, <1>5 DEF ScanProgress

\* Steps that leave the runs and what the invariant says of the data alone.
LEMMA Still ==
    ASSUME IInv, UNCHANGED <<source, store, watermark, run, exposed>>
    PROVE  /\ \A i \in Runs : Shape(i)'
           /\ ScanProgress'
           /\ WatermarkSound'
  <1>1. \A i \in Runs : Shape(i)'
    BY DEF IInv, Shape
  <1>2. ASSUME NEW i \in Runs PROVE Progress(i)'
    BY ProgressFrame DEF IInv, ScanProgress
  <1>3. WatermarkSound'
    BY DEF IInv, WatermarkSound, Stored
  <1> QED
    BY <1>1, <1>2, <1>3 DEF ScanProgress

\* Steps that only move a run between two pcs outside the loop.
LEMMA PcStep ==
    ASSUME IInv, NEW j \in Runs, NEW pc, pc \notin Scanning,
           run[j].pc \notin Scanning, run' = [run EXCEPT ![j].pc = pc],
           UNCHANGED <<source, store, watermark, exposed>>
    PROVE  /\ \A i \in Runs : Shape(i)'
           /\ ScanProgress'
           /\ WatermarkSound'
  <1> DEFINE new == [run[j] EXCEPT !.pc = pc]
  <1>1. run \in [Runs -> RunState]
    BY DEF IInv, Types
  <1>2. run' = [run EXCEPT ![j] = new]
    BY <1>1
  <1>3. new.pc \notin Scanning /\ new.page = {} /\ new.pending = {}
        /\ new.eof = FALSE /\ new.offset = 0
    BY <1>1 DEF IInv, Shape, RunState
  <1> HIDE DEF new
  <1> QED
    BY <1>2, <1>3, QuietStep

LEMMA ReadWatermarkStep ==
    ASSUME IInv, NEW j \in Runs, NEW t \in Tables, ReadWatermark(j, t)
    PROVE  /\ \A i \in Runs : Shape(i)'
           /\ ScanProgress'
           /\ WatermarkSound'
  <1> DEFINE S == Matching(source[t], watermark[t])
  <1>1. /\ run[j].pc = "next"
        /\ run' = [run EXCEPT ![j].pc = "scan", ![j].table = t,
                              ![j].since = watermark[t]]
        /\ UNCHANGED <<source, store, watermark, exposed>>
    BY DEF ReadWatermark
  <1>2. run \in [Runs -> RunState]
    BY DEF IInv, Types
  <1>3. /\ run'[j].pc = "scan" /\ run'[j].table = t
        /\ run'[j].since = watermark[t]
        /\ run'[j].page = {} /\ run'[j].pending = {}
        /\ run'[j].eof = FALSE /\ run'[j].offset = 0
        /\ \A i \in Runs \ {j} : run'[i] = run[i]
    <2>1. run[j].page = {} /\ run[j].pending = {} /\ run[j].eof = FALSE
          /\ run[j].offset = 0
      BY <1>1 DEF IInv, Shape, Scanning
    <2> QED
      BY <1>1, <1>2, <2>1 DEF RunState
  <1>4. \A i \in Runs : Shape(i)'
    BY <1>3 DEF IInv, Shape, Scanning
  <1>5. ASSUME NEW r \in Rows \ exposed[t], Live(source[t][r])
        PROVE  Stored(t, r) \/ (r \in S /\ 0 < Rank(S, r))
    <2>1. CASE Covered(source[t][r], watermark[t])
      BY <2>1 DEF IInv, WatermarkSound
    <2>2. CASE ~Covered(source[t][r], watermark[t])
      <3>1. /\ watermark[t] \in 0..MaxStamp
            /\ source[t][r].stamp \in 0..MaxStamp
        BY DEF IInv, Types
      <3>2. Qualifies(source[t][r], watermark[t])
        BY <1>5, <2>2, <3>1, BoundsAssumption DEF Covered, Qualifies
      <3>3. r \in S /\ S \in SUBSET Rows
        BY <3>2 DEF Matching
      <3>4. r \in {q \in S : q <= r}
        BY <3>3, RowsAssumption
      <3>5. IsFiniteSet({q \in S : q <= r}) /\ Rank(S, r) \in Nat
        BY <3>3, RankType
      <3>6. Rank(S, r) # 0
        BY <3>4, <3>5, FS_EmptySet DEF Rank
      <3> QED
        BY <3>3, <3>5, <3>6
    <2> QED
      BY <2>1, <2>2
  <1>6. Progress(j)'
    <2> DEFINE new == run'[j]
    <2> HIDE DEF new
    <2> QED
      BY <1>1, <1>3, <1>5, ProgressIntro DEF new
  <1>7. ASSUME NEW i \in Runs \ {j} PROVE Progress(i)'
    BY <1>1, <1>3, ProgressFrame DEF IInv, ScanProgress
  <1>8. WatermarkSound'
    BY <1>1 DEF IInv, WatermarkSound, Stored
  <1> QED
    BY <1>4, <1>6, <1>7, <1>8 DEF ScanProgress

LEMMA FetchPageStep ==
    ASSUME IInv, NEW j \in Runs, FetchPage(j)
    PROVE  /\ \A i \in Runs : Shape(i)'
           /\ ScanProgress'
           /\ WatermarkSound'
  <1> DEFINE me == run[j]
             t == me.table
             rows == source[t]
             S == Matching(rows, me.since)
             found == PageOf(rows, me.since, me.offset)
             page == {[row |-> r, version |-> rows[r].version,
                       stamp |-> rows[r].stamp] : r \in found}
             eof == Cardinality(found) < BatchSize
             offset == IF eof THEN me.offset ELSE me.offset + BatchSize
             new == [me EXCEPT !.pc = Resume(page, me.pending, eof),
                               !.page = page, !.eof = eof,
                               !.offset = offset]
  <1>1. /\ me.pc = "scan"
        /\ run' = [run EXCEPT ![j] = new]
        /\ UNCHANGED <<source, store, watermark, exposed>>
    BY Zenon DEF FetchPage
  <1>2. run \in [Runs -> RunState] /\ me \in RunState /\ eof \in BOOLEAN
    BY DEF IInv, Types
  <1>3. me.page = {} /\ me.eof = FALSE /\ me.offset \in Nat
    BY <1>1, <1>2 DEF IInv, Shape, RunState
  <1>4. run'[j] = new /\ \A i \in Runs \ {j} : run'[i] = run[i]
    BY <1>1, <1>2
  <1>5. /\ new.pc = Resume(page, me.pending, eof)
        /\ new.page = page /\ new.pending = me.pending
        /\ new.eof = eof /\ new.offset = offset
        /\ new.table = t /\ new.since = me.since
    <2> HIDE DEF me, page, eof, offset
    <2> QED
      BY <1>2 DEF RunState
  <1>6. \A i \in Runs : Shape(i)'
    <2>1. /\ new.pc \in Scanning
          /\ new.pc = "scan" => page = {} /\ eof = FALSE
          /\ new.pc = "mark" => page = {} /\ me.pending = {} /\ eof = TRUE
      <3> DEFINE b == me.pending
      <3> HIDE DEF new, page, eof, offset, b
      <3>1. new.pc = Resume(page, b, eof)
        BY <1>5 DEF b
      <3>2. Resume(page, b, eof) \in Scanning
        BY ResumeType
      <3>3. /\ Resume(page, b, eof) = "scan" => page = {} /\ eof = FALSE
            /\ Resume(page, b, eof) = "mark" =>
                    page = {} /\ b = {} /\ eof = TRUE
        BY <1>2, ResumeShape, Zenon
      <3> QED
        BY <3>1, <3>2, <3>3, Zenon DEF b
    <2>2. Shape(j)'
      <3> HIDE DEF new, page, eof, offset
      <3> QED
        BY <1>4, <1>5, <2>1 DEF Shape
    <2> QED
      BY <1>4, <2>2 DEF IInv, Shape
  <1>7. \A p \in page : p.version = rows[p.row].version
    OBVIOUS
  <1>8. ASSUME NEW r \in S, me.offset < Rank(S, r)
        PROVE  \/ \E p \in page : p.row = r
               \/ eof = FALSE /\ offset < Rank(S, r)
    <2>1. CASE r \in found
      <3>1. [row |-> r, version |-> rows[r].version,
             stamp |-> rows[r].stamp] \in page
        BY <2>1
      <3> QED
        BY <3>1
    <2>2. CASE r \notin found
      <3>1. ~eof /\ me.offset + BatchSize < Rank(S, r)
        BY <1>3, <1>8, <2>2, FullPage
      <3> QED
        BY <3>1
    <2> QED
      BY <2>1, <2>2
  <1>9. Progress(j)'
    <2>1. Progress(j) /\ me.pc \in Scanning
      BY <1>1 DEF IInv, ScanProgress, Scanning
    <2>2. ASSUME NEW r \in Rows \ exposed[t], Live(rows[r])
          PROVE  \/ Stored(t, r)
                 \/ \E p \in page : p.row = r
                 \/ \A i \in Index : i < ChunkCount[r][rows[r].version]
                        => \E c \in me.pending : c.row = r /\ c.index = i
                 \/ eof = FALSE /\ r \in S /\ offset < Rank(S, r)
      <3> HIDE DEF page, eof, offset
      <3> QED
        BY <2>1, <2>2, <1>3, <1>8 DEF Progress
    <2>3. \A p \in me.pending : p.row \notin exposed[t]
                                    => p.version = rows[p.row].version
      BY <2>1 DEF Progress
    <2> HIDE DEF new, page, eof, offset
    <2>4. \A r \in Rows \ exposed[t] : Live(rows[r]) =>
                \/ Stored(t, r)
                \/ \E p \in new.page : p.row = r
                \/ \A i \in Index : i < ChunkCount[r][rows[r].version]
                      => \E c \in new.pending : c.row = r /\ c.index = i
                \/ /\ ~new.eof
                   /\ r \in Matching(rows, new.since)
                   /\ new.offset < Rank(Matching(rows, new.since), r)
      BY <1>5, <2>2
    <2>5. \A p \in new.page \cup new.pending :
                p.row \notin exposed[t] => p.version = rows[p.row].version
      BY <1>5, <1>7, <2>3
    <2>6. source' = source /\ UNCHANGED <<store, exposed>> /\ source'[t] = rows
      BY <1>1
    <2> HIDE DEF me, t, rows
    <2> QED
      BY <1>4, <1>5, <2>4, <2>5, <2>6, ProgressIntro
  <1>10. ASSUME NEW i \in Runs \ {j} PROVE Progress(i)'
    BY <1>1, <1>4, ProgressFrame DEF IInv, ScanProgress
  <1>11. WatermarkSound'
    BY <1>1 DEF IInv, WatermarkSound, Stored
  <1> QED
    BY <1>6, <1>9, <1>10, <1>11 DEF ScanProgress

LEMMA ProcessRowStep ==
    ASSUME IInv, NEW j \in Runs, ProcessRow(j)
    PROVE  /\ \A i \in Runs : Shape(i)'
           /\ ScanProgress'
           /\ WatermarkSound'
  <1> DEFINE me == run[j]
             t == me.table
             rows == source[t]
  <1>1. PICK p \in me.page :
            run' = [run EXCEPT ![j] =
              [me EXCEPT
                 !.pc = IF Cardinality(me.pending \cup ChunksOf(p, me.offset))
                                >= BatchSize
                        THEN "flush"
                        ELSE Resume(me.page \ {p},
                                    me.pending \cup ChunksOf(p, me.offset),
                                    me.eof),
                 !.page = me.page \ {p},
                 !.pending = me.pending \cup ChunksOf(p, me.offset),
                 !.max = IF p.stamp > @ THEN p.stamp ELSE @]]
    BY Zenon DEF ProcessRow
  <1> DEFINE page == me.page \ {p}
             pending == me.pending \cup ChunksOf(p, me.offset)
             pc == IF Cardinality(pending) >= BatchSize THEN "flush"
                   ELSE Resume(page, pending, me.eof)
             new == [me EXCEPT !.pc = pc, !.page = page, !.pending = pending,
                               !.max = IF p.stamp > @ THEN p.stamp ELSE @]
  <1>2. me.pc = "rows" /\ UNCHANGED <<source, store, watermark, exposed>>
    BY DEF ProcessRow
  <1>3. run \in [Runs -> RunState] /\ me \in RunState /\ me.eof \in BOOLEAN
        /\ p \in PageRow
    BY DEF IInv, Types, RunState
  <1>4. run'[j] = new /\ \A i \in Runs \ {j} : run'[i] = run[i]
    BY <1>1, <1>3
  <1>5. /\ new.pc = pc /\ new.page = page /\ new.pending = pending
        /\ new.eof = me.eof /\ new.offset = me.offset
        /\ new.table = t /\ new.since = me.since
    <2> HIDE DEF me, page, pending, pc
    <2> QED
      BY <1>3 DEF RunState
  <1>6. \A i \in Runs : Shape(i)'
    <2>1. /\ pc \in Scanning
          /\ pc = "scan" => page = {} /\ me.eof = FALSE
          /\ pc = "mark" => page = {} /\ pending = {} /\ me.eof = TRUE
      <3> HIDE DEF page, pending
      <3> QED
        BY <1>3, ResumeShape, ResumeType DEF Scanning
    <2>2. Shape(j)'
      <3> HIDE DEF new, page, pending, pc
      <3> QED
        BY <1>4, <1>5, <2>1 DEF Shape
    <2> QED
      BY <1>4, <2>2 DEF IInv, Shape
  <1>7. Progress(j) /\ me.pc \in Scanning
    BY <1>2 DEF IInv, ScanProgress, Scanning
  <1>8. ASSUME NEW q \in page \cup pending, q.row \notin exposed[t]
        PROVE  q.version = rows[q.row].version
    <2>1. CASE q \in me.page \cup me.pending
      BY <1>7, <1>8, <2>1 DEF Progress
    <2>2. CASE q \in ChunksOf(p, me.offset)
      <3>1. q.row = p.row /\ q.version = p.version
        BY <2>2 DEF ChunksOf
      <3> QED
        BY <1>7, <1>8, <3>1 DEF Progress
    <2> QED
      BY <1>8, <2>1, <2>2
  <1>9. ASSUME NEW r \in Rows \ exposed[t], Live(rows[r])
        PROVE  \/ Stored(t, r)
               \/ \E q \in page : q.row = r
               \/ \A i \in Index : i < ChunkCount[r][rows[r].version]
                      => \E c \in pending : c.row = r /\ c.index = i
               \/ /\ me.eof = FALSE
                  /\ r \in Matching(rows, me.since)
                  /\ me.offset < Rank(Matching(rows, me.since), r)
    <2>1. CASE r = p.row
      <3>1. p.version = rows[r].version
        BY <1>7, <1>9, <2>1 DEF Progress
      <3>2. ASSUME NEW i \in Index, i < ChunkCount[r][rows[r].version]
            PROVE  \E c \in pending : c.row = r /\ c.index = i
        <4>1. [row |-> p.row, index |-> i, version |-> p.version,
               at |-> me.offset] \in ChunksOf(p, me.offset)
          BY <2>1, <3>1, <3>2 DEF ChunksOf
        <4> QED
          BY <2>1, <4>1
      <3> QED
        BY <3>2
    <2>2. CASE r # p.row
      BY <1>7, <1>9, <2>2 DEF Progress
    <2> QED
      BY <2>1, <2>2
  <1>10. Progress(j)'
    <2> HIDE DEF new, page, pending, pc
    <2> QED
      BY <1>2, <1>4, <1>5, <1>8, <1>9 DEF Progress, Stored
  <1>11. ASSUME NEW i \in Runs \ {j} PROVE Progress(i)'
    BY <1>2, <1>4, ProgressFrame DEF IInv, ScanProgress
  <1>12. WatermarkSound'
    BY <1>2 DEF IInv, WatermarkSound, Stored
  <1> QED
    BY <1>6, <1>10, <1>11, <1>12 DEF ScanProgress

\* An upsert of chunks that carry the row's current version v leaves a chunk
\* at v if it was there before or is among them.
LEMMA UpsertCurrent ==
    ASSUME NEW rows, NEW chunks, NEW r \in Rows, NEW i \in Index, NEW v,
           \A c \in chunks : c.row = r => c.version = v,
           rows[r][i] = v \/ \E c \in chunks : c.row = r /\ c.index = i
    PROVE  Upserted(rows, chunks)[r][i] = v
  <1> DEFINE c == CHOOSE c \in chunks : c.row = r /\ c.index = i
  <1>1. CASE \E d \in chunks : d.row = r /\ d.index = i
    <2>1. c \in chunks /\ c.row = r
      BY <1>1
    <2>2. Upserted(rows, chunks)[r][i] = c.version
      BY <1>1 DEF Upserted
    <2> QED
      BY <2>1, <2>2
  <1>2. CASE ~\E d \in chunks : d.row = r /\ d.index = i
    BY <1>2 DEF Upserted
  <1> QED
    BY <1>1, <1>2

LEMMA FlushStep ==
    ASSUME IInv, NEW j \in Runs, Flush(j)
    PROVE  /\ \A i \in Runs : Shape(i)'
           /\ ScanProgress'
           /\ WatermarkSound'
  <1> DEFINE me == run[j]
             t == me.table
             rows == source[t]
             new == [me EXCEPT !.pc = Resume(me.page, {}, me.eof),
                               !.pending = {}]
  <1>1. /\ me.pc = "flush"
        /\ run' = [run EXCEPT ![j] = new]
        /\ store' = [store EXCEPT ![t] = Upserted(store[t], me.pending)]
        /\ UNCHANGED <<source, watermark, exposed>>
    BY DEF Flush
  <1>2. /\ run \in [Runs -> RunState] /\ me \in RunState /\ t \in Tables
        /\ me.eof \in BOOLEAN
        /\ store \in [Tables -> [Rows -> [Index -> 0..MaxVersion]]]
    BY <1>1 DEF IInv, Types, RunState, Scanning
  <1>3. run'[j] = new /\ \A i \in Runs \ {j} : run'[i] = run[i]
    BY <1>1, <1>2
  <1>4. /\ new.pc = Resume(me.page, {}, me.eof)
        /\ new.page = me.page /\ new.pending = {}
        /\ new.eof = me.eof /\ new.offset = me.offset
        /\ new.table = t /\ new.since = me.since
    <2> HIDE DEF me
    <2> QED
      BY <1>2 DEF RunState
  <1>5. \A i \in Runs : Shape(i)'
    <2>1. /\ Resume(me.page, {}, me.eof) \in Scanning
          /\ Resume(me.page, {}, me.eof) = "scan"
                => me.page = {} /\ me.eof = FALSE
          /\ Resume(me.page, {}, me.eof) = "mark"
                => me.page = {} /\ me.eof = TRUE
      BY <1>2, ResumeShape, ResumeType
    <2>2. Shape(j)'
      <3> HIDE DEF new, me
      <3> QED
        BY <1>3, <1>4, <2>1 DEF Shape
    <2> QED
      BY <1>3, <2>2 DEF IInv, Shape
  <1>6. Progress(j) /\ me.pc \in Scanning
    BY <1>1 DEF IInv, ScanProgress, Scanning
  <1>7. \A r \in Rows \ exposed[t] : \A c \in me.pending :
            c.row = r => c.version = rows[r].version
    BY <1>6 DEF Progress
  \* What was stored of a row stays; what was pending is stored.
  <1>8. ASSUME NEW r \in Rows \ exposed[t], NEW i \in Index,
               \/ store[t][r][i] = rows[r].version
               \/ \E c \in me.pending : c.row = r /\ c.index = i
        PROVE  store'[t][r][i] = rows[r].version
    <2>1. store'[t] = Upserted(store[t], me.pending)
      BY <1>1, <1>2
    <2> DEFINE v == rows[r].version
               b == me.pending
    <2>2. \A c \in b : c.row = r => c.version = v
      BY <1>7
    <2>3. store[t][r][i] = v \/ \E c \in b : c.row = r /\ c.index = i
      BY <1>8
    <2> HIDE DEF v, b
    <2>4. Upserted(store[t], b)[r][i] = v
      BY <2>2, <2>3, UpsertCurrent
    <2> QED
      BY <2>1, <2>4 DEF v, b
  <1>9. \A u \in Tables \ {t} : store'[u] = store[u]
    BY <1>1, <1>2
  <1>10. Progress(j)'
    <2>1. ASSUME NEW r \in Rows \ exposed[t], Live(rows[r])
          PROVE  \/ \A i \in Index : i < ChunkCount[r][rows[r].version]
                        => store'[t][r][i] = rows[r].version
                 \/ \E p \in me.page : p.row = r
                 \/ /\ ~me.eof
                    /\ r \in Matching(rows, me.since)
                    /\ me.offset < Rank(Matching(rows, me.since), r)
      <3>1. CASE \A i \in Index : i < ChunkCount[r][rows[r].version]
                      => \/ store[t][r][i] = rows[r].version
                         \/ \E c \in me.pending : c.row = r /\ c.index = i
        BY <3>1, <1>8
      <3>2. CASE ~\A i \in Index : i < ChunkCount[r][rows[r].version]
                      => \/ store[t][r][i] = rows[r].version
                         \/ \E c \in me.pending : c.row = r /\ c.index = i
        BY <3>2, <1>6, <2>1 DEF Progress, Stored
      <3> QED
        BY <3>1, <3>2
    <2>2. \A p \in me.page : p.row \notin exposed[t]
                                => p.version = rows[p.row].version
      BY <1>6 DEF Progress
    <2> HIDE DEF new
    <2> QED
      BY <1>1, <1>3, <1>4, <2>1, <2>2 DEF Progress, Stored
  <1>11. ASSUME NEW i \in Runs \ {j} PROVE Progress(i)'
    <2>1. Progress(i) /\ run'[i] = run[i]
      BY <1>3 DEF IInv, ScanProgress
    <2>2. ASSUME run[i].pc \in Scanning, NEW r \in Rows \ exposed[run[i].table],
                 NEW k \in Index,
                 store[run[i].table][r][k] = source[run[i].table][r].version
          PROVE  store'[run[i].table][r][k] = source[run[i].table][r].version
      <3>1. run[i].table \in Tables
        BY <2>2 DEF IInv, Types, RunState
      <3> QED
        BY <2>2, <3>1, <1>8, <1>9
    <2> QED
      BY <1>1, <2>1, <2>2, ProgressFrame
  <1>12. WatermarkSound'
    <2>1. ASSUME NEW u \in Tables, NEW r \in Rows \ exposed[u],
                 Covered(source[u][r], watermark[u]), NEW i \in Index,
                 i < ChunkCount[r][source[u][r].version]
          PROVE  store'[u][r][i] = source[u][r].version
      <3>1. store[u][r][i] = source[u][r].version
        BY <2>1 DEF IInv, WatermarkSound, Stored
      <3> QED
        BY <3>1, <2>1, <1>8, <1>9
    <2> QED
      BY <1>1, <2>1 DEF WatermarkSound, Stored
  <1> QED
    BY <1>5, <1>10, <1>11, <1>12 DEF ScanProgress

\* When a run stops reading a table, the rows that stop being exposed are not
\* covered by the watermark left behind, and nothing changes for a run that is
\* still reading.
LEMMA Leaving ==
    ASSUME IInv, NEW j \in Runs, NEW marks,
           exposed' = ExposedAfter(j, marks)
    PROVE  /\ \A t \in Tables : \A r \in exposed[t] \ exposed'[t] :
                    ~Covered(source[t][r], marks[t])
           /\ \A i \in Runs \ {j} : run[i].pc \in Scanning
                    => exposed'[run[i].table] = exposed[run[i].table]
  <1> DEFINE u == run[j].table
  <1>1. exposed \in [Tables -> SUBSET Rows]
    BY DEF IInv, Types
  <1>2. CASE run[j].pc \notin Scanning
    BY <1>2 DEF ExposedAfter
  <1>3. CASE run[j].pc \in Scanning
    <2>1. u \in Tables
      BY <1>3 DEF IInv, Types, RunState
    <2>2. /\ exposed'[u] = Settle(exposed[u], source[u], marks[u],
                                  Active(u) \ {j} # {})
          /\ \A t \in Tables \ {u} : exposed'[t] = exposed[t]
      BY <1>1, <1>3, <2>1 DEF ExposedAfter
    <2>3. ASSUME NEW i \in Runs \ {j}, run[i].pc \in Scanning
          PROVE  exposed'[run[i].table] = exposed[run[i].table]
      <3>1. run[i].table \in Tables
        BY <2>3 DEF IInv, Types, RunState
      <3>2. CASE run[i].table = u
        <4>1. i \in Active(u) \ {j}
          BY <2>3, <3>2 DEF Active
        <4> QED
          BY <2>2, <3>2, <4>1 DEF Settle
      <3> QED
        BY <2>2, <3>1, <3>2
    <2>4. ASSUME NEW t \in Tables, NEW r \in exposed[t] \ exposed'[t]
          PROVE  ~Covered(source[t][r], marks[t])
      BY <2>2, <2>4 DEF Settle
    <2> QED
      BY <2>3, <2>4
  <1> QED
    BY <1>2, <1>3

\* A run that raises or crashes leaves the loop without touching the store.
LEMMA AbandonStep ==
    ASSUME IInv, NEW j \in Runs, NEW pc \in PCs \ Scanning, NEW todo,
           run' = [run EXCEPT ![j] = At(pc, todo)],
           exposed' = ExposedAfter(j, watermark),
           UNCHANGED <<source, store, watermark>>
    PROVE  /\ \A i \in Runs : Shape(i)'
           /\ ScanProgress'
           /\ WatermarkSound'
  <1>1. run \in [Runs -> RunState]
    BY DEF IInv, Types
  <1>2. run'[j] = At(pc, todo) /\ \A i \in Runs \ {j} : run'[i] = run[i]
    BY <1>1
  <1>0. /\ run'[j].pc = pc /\ pc \notin Scanning
        /\ run'[j].page = {} /\ run'[j].pending = {}
        /\ run'[j].eof = FALSE /\ run'[j].offset = 0
    BY <1>2 DEF At
  <1>3. \A i \in Runs : Shape(i)'
    BY <1>2, <1>0 DEF IInv, Shape, Scanning
  <1>4. Progress(j)'
    BY <1>0 DEF Progress
  <1>5. ASSUME NEW i \in Runs \ {j} PROVE Progress(i)'
    BY <1>2, Leaving, ProgressFrame DEF IInv, ScanProgress
  <1>6. WatermarkSound'
    BY Leaving DEF IInv, WatermarkSound, Stored
  <1> QED
    BY <1>3, <1>4, <1>5, <1>6 DEF ScanProgress

\* The watermark is written when nothing of the scan is left to store.
LEMMA SetWatermarkStep ==
    ASSUME IInv, NEW j \in Runs, SetWatermark(j)
    PROVE  /\ \A i \in Runs : Shape(i)'
           /\ ScanProgress'
           /\ WatermarkSound'
  <1> DEFINE me == run[j]
             t == me.table
  <1>1. /\ me.pc = "mark"
        /\ run' = [run EXCEPT ![j] = At("next", me.todo \ {t})]
        /\ exposed' = ExposedAfter(j, watermark')
        /\ \A u \in Tables \ {t} : watermark'[u] = watermark[u]
        /\ UNCHANGED <<source, store>>
    BY DEF SetWatermark, IInv, Types
  <1>2. run \in [Runs -> RunState] /\ "next" \in PCs \ Scanning
    BY DEF IInv, Types, PCs, Scanning
  <1>3. /\ run'[j] = At("next", me.todo \ {t})
        /\ \A i \in Runs \ {j} : run'[i] = run[i]
    BY <1>1, <1>2
  <1>0. /\ run'[j].pc = "next" /\ "next" \notin Scanning
        /\ run'[j].page = {} /\ run'[j].pending = {}
        /\ run'[j].eof = FALSE /\ run'[j].offset = 0
    BY <1>2, <1>3 DEF At
  <1>4. \A i \in Runs : Shape(i)'
    BY <1>3, <1>0 DEF IInv, Shape, Scanning
  <1>5. Progress(j)'
    BY <1>0 DEF Progress
  <1>6. ASSUME NEW i \in Runs \ {j} PROVE Progress(i)'
    BY <1>1, <1>3, Leaving, ProgressFrame DEF IInv, ScanProgress
  <1>7. \A r \in Rows \ exposed[t] : Live(source[t][r]) => Stored(t, r)
    <2>1. me.page = {} /\ me.pending = {} /\ me.eof = TRUE
      BY <1>1 DEF IInv, Shape
    <2>2. Progress(j) /\ me.pc \in Scanning
      BY <1>1 DEF IInv, ScanProgress, Scanning
    <2> QED
      BY <2>1, <2>2 DEF Progress, Stored
  <1>8. WatermarkSound'
    <2>1. ASSUME NEW u \in Tables, NEW r \in Rows \ exposed'[u],
                 Covered(source[u][r], watermark'[u])
          PROVE  Stored(u, r)
      <3>1. r \notin exposed[u]
        BY <1>1, <2>1, Leaving
      <3>2. CASE u = t
        BY <1>7, <2>1, <3>1, <3>2 DEF Covered
      <3>3. CASE u # t
        BY <1>1, <2>1, <3>1, <3>3 DEF IInv, WatermarkSound
      <3> QED
        BY <3>2, <3>3
    <2> QED
      BY <1>1, <2>1 DEF WatermarkSound, Stored
  <1> QED
    BY <1>4, <1>5, <1>6, <1>8 DEF ScanProgress

\* delete_chunks: every row the watermark covers, and every row of a table
\* that is being read, becomes exposed.
LEMMA ResetDeleteChunksStep ==
    ASSUME IInv, NEW k \in Resets, NEW requested \in SUBSET Tables,
           ResetDeleteChunks(k, requested)
    PROVE  /\ \A i \in Runs : Shape(i)'
           /\ ScanProgress'
           /\ WatermarkSound'
  <1> DEFINE scope == IF requested = {} THEN Tables ELSE requested
  <1>1. /\ store' = [t \in Tables |-> IF t \in scope THEN NoChunks
                                                     ELSE store[t]]
        /\ exposed' = [t \in Tables |->
                         IF t \in scope
                         THEN Settle(Rows, source[t], watermark[t],
                                     Active(t) # {})
                         ELSE exposed[t]]
        /\ UNCHANGED <<source, watermark, run>>
    BY DEF ResetDeleteChunks
  <1>2. \A i \in Runs : Shape(i)'
    BY <1>1 DEF IInv, Shape
  <1>3. ASSUME NEW i \in Runs PROVE Progress(i)'
    <2> DEFINE t == run[i].table
    <2>1. CASE run[i].pc \in Scanning /\ t \in scope
      <3>1. t \in Tables /\ i \in Active(t)
        BY <2>1 DEF IInv, Types, RunState, Active
      <3>2. exposed'[t] = Rows
        BY <1>1, <2>1, <3>1 DEF Settle
      <3>3. run[i] \in RunState
        BY DEF IInv, Types
      <3>4. \A p \in run[i].page \cup run[i].pending : p.row \in Rows
        BY <3>3 DEF RunState, PageRow, Chunk
      <3> QED
        BY <1>1, <3>2, <3>4 DEF Progress
    <2>2. CASE run[i].pc \in Scanning /\ t \notin scope
      <3>1. t \in Tables
        BY <2>2 DEF IInv, Types, RunState
      <3>2. exposed'[t] = exposed[t] /\ store'[t] = store[t]
        BY <1>1, <2>2, <3>1
      <3> QED
        BY <1>1, <3>2, ProgressFrame DEF IInv, ScanProgress
    <2>3. CASE run[i].pc \notin Scanning
      BY <1>1, <2>3 DEF Progress
    <2> QED
      BY <2>1, <2>2, <2>3
  <1>4. WatermarkSound'
    <2>1. ASSUME NEW t \in Tables, t \in scope, NEW r \in Rows \ exposed'[t]
          PROVE  ~Covered(source[t][r], watermark[t])
      BY <1>1, <2>1 DEF Settle
    <2>2. \A t \in Tables \ scope : exposed'[t] = exposed[t]
                                    /\ store'[t] = store[t]
      BY <1>1
    <2> HIDE DEF scope
    <2> QED
      BY <1>1, <2>1, <2>2 DEF IInv, WatermarkSound, Stored
  <1> QED
    BY <1>2, <1>3, <1>4 DEF ScanProgress

\* delete_watermarks: nothing is covered any more; a run that is reading keeps
\* its account, which does not depend on the watermark.
LEMMA ResetDeleteWatermarksStep ==
    ASSUME IInv, NEW k \in Resets, ResetDeleteWatermarks(k)
    PROVE  /\ \A i \in Runs : Shape(i)'
           /\ ScanProgress'
           /\ WatermarkSound'
  <1> DEFINE scope == reset[k].scope
  <1>1. /\ watermark' = [t \in Tables |-> IF t \in scope THEN 0
                                                         ELSE watermark[t]]
        /\ exposed' = [t \in Tables |->
                         IF t \in scope
                         THEN Settle(exposed[t], source[t], 0,
                                     Active(t) # {})
                         ELSE exposed[t]]
        /\ UNCHANGED <<source, store, run>>
    BY DEF ResetDeleteWatermarks
  <1>2. \A i \in Runs : Shape(i)'
    BY <1>1 DEF IInv, Shape
  <1>3. ASSUME NEW i \in Runs PROVE Progress(i)'
    <2>1. CASE run[i].pc \in Scanning
      <3>1. run[i].table \in Tables /\ i \in Active(run[i].table)
        BY <2>1 DEF IInv, Types, RunState, Active
      <3>2. exposed'[run[i].table] = exposed[run[i].table]
        BY <1>1, <3>1 DEF Settle
      <3> QED
        BY <1>1, <3>2, ProgressFrame DEF IInv, ScanProgress
    <2>2. CASE run[i].pc \notin Scanning
      BY <1>1, <2>2 DEF Progress
    <2> QED
      BY <2>1, <2>2
  <1>4. WatermarkSound'
    <2>1. \A t \in Tables : t \in scope => watermark'[t] = 0
      BY <1>1
    <2>2. \A t \in Tables \ scope : exposed'[t] = exposed[t]
                                    /\ watermark'[t] = watermark[t]
      BY <1>1
    <2> HIDE DEF scope
    <2> QED
      BY <1>1, <2>1, <2>2 DEF IInv, WatermarkSound, Stored, Covered
  <1> QED
    BY <1>2, <1>3, <1>4 DEF ScanProgress

\* An edit of one row: the row itself is exposed, and so is every row behind
\* it that a paged result could lose; a row before it keeps its rank.
LEMMA EditSourceStep ==
    ASSUME IInv, NEW t \in Tables, NEW r \in Rows, NEW new \in RowValues(t),
           EditSource(t, r, new)
    PROVE  /\ \A i \in Runs : Shape(i)'
           /\ ScanProgress'
           /\ WatermarkSound'
  <1> DEFINE old == source[t][r]
             shifted == \E j \in Active(t) :
                            Qualifies(old, run[j].since)
                            /\ ~Qualifies(new, run[j].since)
             touched == {r} \cup {q \in Rows : q > r /\ shifted}
  <1>1. /\ source' = [source EXCEPT ![t][r] = new]
        /\ exposed' = [exposed EXCEPT ![t] =
                         Settle(exposed[t] \cup touched, source'[t],
                                watermark[t], Active(t) # {})]
        /\ UNCHANGED <<store, watermark, run>>
    BY DEF EditSource
  <1>2. /\ source \in [Tables -> [Rows -> [version : 0..MaxVersion,
                                           stamp : 0..MaxStamp]]]
        /\ exposed \in [Tables -> SUBSET Rows]
    BY DEF IInv, Types
  <1>3. /\ \A u \in Tables \ {t} : /\ source'[u] = source[u]
                                   /\ exposed'[u] = exposed[u]
        /\ source'[t] = [source[t] EXCEPT ![r] = new]
        /\ exposed'[t] = Settle(exposed[t] \cup touched, source'[t],
                                watermark[t], Active(t) # {})
    BY <1>1, <1>2
  <1>4. /\ source'[t][r] = new
        /\ \A q \in Rows \ {r} : source'[t][q] = source[t][q]
    BY <1>2, <1>3
  <1>5. \A i \in Runs : Shape(i)'
    BY <1>1 DEF IInv, Shape
  <1>6. ASSUME NEW i \in Runs PROVE Progress(i)'
    <2>1. CASE run[i].pc \notin Scanning
      BY <1>1, <2>1 DEF Progress
    <2>2. CASE run[i].pc \in Scanning /\ run[i].table # t
      <3>1. run[i].table \in Tables \ {t}
        BY <2>2 DEF IInv, Types, RunState
      <3> QED
        BY <1>1, <1>3, <3>1, ProgressFrame DEF IInv, ScanProgress
    <2>3. CASE run[i].pc \in Scanning /\ run[i].table = t
      <3> DEFINE since == run[i].since
                 S == Matching(source[t], since)
                 T == Matching(source'[t], since)
      <3>1. i \in Active(t)
        BY <2>3 DEF Active
      <3>2. exposed'[t] = exposed[t] \cup touched
        BY <1>3, <3>1 DEF Settle
      <3>3. ASSUME NEW q \in Rows \ exposed'[t], q \in S
            PROVE  q \in T /\ Rank(S, q) <= Rank(T, q)
        <4>1. q # r /\ (q > r => ~shifted)
          BY <3>2
        <4>2. q \in T
          BY <1>4, <3>3, <4>1 DEF Matching
        <4>3. ASSUME NEW x \in S, x <= q
              PROVE  x \in T
          <5>1. CASE x # r
            BY <1>4, <5>1 DEF Matching
          <5>2. CASE x = r
            <6>1. q > r
              <7>1. q \in Nat /\ r \in Nat
                BY RowsAssumption
              <7> QED
                BY <4>1, <4>3, <5>2, <7>1
            <6>2. Qualifies(old, since)
              BY <5>2 DEF Matching
            <6>3. Qualifies(new, since)
              BY <3>1, <4>1, <6>1, <6>2
            <6> QED
              BY <1>4, <5>2, <6>3 DEF Matching
          <5> QED
            BY <5>1, <5>2
        <4>4. {x \in S : x <= q} \subseteq {x \in T : x <= q}
          BY <4>3
        <4>5. T \in SUBSET Rows
          BY DEF Matching
        <4>6. Rank(S, q) <= Rank(T, q)
          <5> HIDE DEF S, T
          <5> QED
            BY <4>4, <4>5, RankGrows
        <4> QED
          BY <4>2, <4>6
      <3>4. Progress(i) /\ run[i] \in RunState
        BY DEF IInv, ScanProgress, Types
      <3>5. \A q \in Rows \ exposed'[t] : /\ q \notin exposed[t]
                                          /\ source'[t][q] = source[t][q]
        BY <1>4, <3>2
      <3>6. \A p \in run[i].page \cup run[i].pending :
                p.row \notin exposed'[t]
                    => p.version = source'[t][p.row].version
        <4>1. \A p \in run[i].page \cup run[i].pending : p.row \in Rows
          BY <3>4 DEF RunState, PageRow, Chunk
        <4> QED
          BY <2>3, <3>4, <3>5, <4>1 DEF Progress
      <3>7. ASSUME NEW q \in Rows \ exposed'[t], Live(source'[t][q])
            PROVE  \/ \A k \in Index : k < ChunkCount[q][source'[t][q].version]
                        => store[t][q][k] = source'[t][q].version
                   \/ \E p \in run[i].page : p.row = q
                   \/ \A k \in Index : k < ChunkCount[q][source'[t][q].version]
                        => \E c \in run[i].pending : c.row = q /\ c.index = k
                   \/ /\ ~run[i].eof
                      /\ q \in T
                      /\ run[i].offset < Rank(T, q)
        <4>1. q \notin exposed[t] /\ source'[t][q] = source[t][q]
          BY <3>5
        <4>2. CASE q \in S /\ run[i].offset < Rank(S, q) /\ ~run[i].eof
          <5>1. q \in T /\ Rank(S, q) <= Rank(T, q)
            BY <3>3, <4>2
          <5>2. /\ Rank(S, q) \in Nat /\ Rank(T, q) \in Nat
                /\ run[i].offset \in Nat
            <6>1. S \in SUBSET Rows /\ T \in SUBSET Rows
              BY DEF Matching
            <6> HIDE DEF S, T
            <6> QED
              BY <3>4, <6>1, RankType DEF RunState
          <5>3. run[i].offset < Rank(T, q)
            <6> HIDE DEF S, T
            <6> QED
              BY <4>2, <5>1, <5>2
          <5> QED
            BY <4>2, <5>1, <5>3
        <4>3. CASE ~(q \in S /\ run[i].offset < Rank(S, q) /\ ~run[i].eof)
          BY <2>3, <3>4, <3>7, <4>1, <4>3 DEF Progress, Stored
        <4> QED
          BY <4>2, <4>3
      <3> HIDE DEF T
      <3>8. T = Matching(source'[run'[i].table], run'[i].since)
        BY <1>1, <2>3 DEF T
      <3> QED
        BY <1>1, <2>3, <3>6, <3>7, <3>8 DEF Progress, Stored
    <2> QED
      BY <2>1, <2>2, <2>3
  <1>7. WatermarkSound'
    <2>1. ASSUME NEW q \in Rows \ exposed'[t],
                 Covered(source'[t][q], watermark[t])
          PROVE  q \notin exposed[t] /\ source'[t][q] = source[t][q]
      <3>1. q \notin exposed[t] \cup touched
        BY <1>3, <2>1 DEF Settle
      <3> QED
        BY <1>4, <3>1
    <2>2. ASSUME NEW q \in Rows \ exposed'[t],
                 Covered(source'[t][q], watermark[t])
          PROVE  Stored(t, q) /\ source'[t][q] = source[t][q]
      BY <2>1, <2>2 DEF IInv, WatermarkSound
    <2> QED
      BY <1>1, <1>3, <2>2 DEF IInv, WatermarkSound, Stored
  <1> QED
    BY <1>5, <1>6, <1>7 DEF ScanProgress

LEMMA IInvInit == Init => IInv
  <1> SUFFICES ASSUME Init PROVE IInv
    OBVIOUS
  <1>1. \A j \in Runs : run[j] = At("new", {}) /\ "new" \notin Scanning
    BY DEF Init, Scanning
  <1>2. \A j \in Runs : Shape(j) /\ Progress(j)
    BY <1>1 DEF Shape, Progress, At
  <1>3. WatermarkSound
    BY DEF Init, WatermarkSound, Covered
  <1> QED
    BY <1>2, <1>3, TypeInit DEF IInv, ScanProgress

LEMMA IInvNext == IInv /\ [Next]_vars => IInv'
  <1> SUFFICES ASSUME IInv, [Next]_vars PROVE IInv'
    OBVIOUS
  <1> DEFINE Kept == (\A i \in Runs : Shape(i)) /\ ScanProgress
                     /\ WatermarkSound
  <1>t. Types' /\ Types
    BY TypeNext DEF IInv
  <1>r. run \in [Runs -> RunState]
    BY <1>t DEF Types
  <1>1. ASSUME NEW j \in Runs, NEW requested \in SUBSET Tables,
               StartIngestion(j, requested)
        PROVE  Kept'
    <2> DEFINE new == At("created", IF requested = {} THEN Tables
                                                     ELSE requested)
    <2>1. /\ run' = [run EXCEPT ![j] = new]
          /\ UNCHANGED <<source, store, watermark, exposed>>
      BY <1>1 DEF StartIngestion
    <2>2. new.pc \notin Scanning /\ new.page = {} /\ new.pending = {}
          /\ new.eof = FALSE /\ new.offset = 0
      BY DEF At, Scanning
    <2> HIDE DEF new
    <2> QED
      BY <2>1, <2>2, QuietStep
  <1>2. ASSUME NEW j \in Runs, StartCli(j)
        PROVE  Kept'
    <2> DEFINE new == At("next", Tables)
    <2>1. /\ run' = [run EXCEPT ![j] = new]
          /\ UNCHANGED <<source, store, watermark, exposed>>
      BY <1>2 DEF StartCli
    <2>2. new.pc \notin Scanning /\ new.page = {} /\ new.pending = {}
          /\ new.eof = FALSE /\ new.offset = 0
      BY DEF At, Scanning
    <2> HIDE DEF new
    <2> QED
      BY <2>1, <2>2, QuietStep
  <1>4. ASSUME NEW j \in Runs, MarkRunning(j)
        PROVE  Kept'
    <2>1. /\ run[j].pc = "created" /\ run' = [run EXCEPT ![j].pc = "next"]
          /\ UNCHANGED <<source, store, watermark, exposed>>
      BY <1>4 DEF MarkRunning
    <2>2. "created" \notin Scanning /\ "next" \notin Scanning
      BY DEF Scanning
    <2> QED
      BY <2>1, <2>2, PcStep
  <1>5. ASSUME NEW j \in Runs, NEW t \in Tables, ReadWatermark(j, t)
        PROVE  Kept'
    BY <1>5, ReadWatermarkStep
  <1>6. ASSUME NEW j \in Runs, FetchPage(j)
        PROVE  Kept'
    BY <1>6, FetchPageStep
  <1>7. ASSUME NEW j \in Runs, ProcessRow(j)
        PROVE  Kept'
    BY <1>7, ProcessRowStep
  <1>8. ASSUME NEW j \in Runs, Flush(j)
        PROVE  Kept'
    BY <1>8, FlushStep
  <1>9. ASSUME NEW j \in Runs, SetWatermark(j)
        PROVE  Kept'
    BY <1>9, SetWatermarkStep
  <1>10. ASSUME NEW j \in Runs, Finish(j)
         PROVE  Kept'
    <2>1. /\ run[j].pc = "next" /\ run' = [run EXCEPT ![j].pc = "ended"]
          /\ UNCHANGED <<source, store, watermark, exposed>>
      BY <1>10 DEF Finish
    <2>2. "next" \notin Scanning /\ "ended" \notin Scanning
      BY DEF Scanning
    <2> QED
      BY <2>1, <2>2, PcStep
  <1>11. ASSUME NEW j \in Runs, Raise(j)
         PROVE  Kept'
    <2> DEFINE pc == IF status[j] = "none" THEN "ended" ELSE "failing"
    <2>1. /\ run' = [run EXCEPT ![j] = At(pc, run[j].todo)]
          /\ exposed' = ExposedAfter(j, watermark)
          /\ UNCHANGED <<source, store, watermark>>
      BY <1>11 DEF Raise
    <2>2. pc \in PCs \ Scanning
      BY DEF PCs, Scanning
    <2> HIDE DEF pc
    <2> QED
      BY <2>1, <2>2, AbandonStep
  <1>12. ASSUME NEW j \in Runs, MarkFailed(j)
         PROVE  Kept'
    <2>1. /\ run[j].pc = "failing" /\ run' = [run EXCEPT ![j].pc = "ended"]
          /\ UNCHANGED <<source, store, watermark, exposed>>
      BY <1>12 DEF MarkFailed
    <2>2. "failing" \notin Scanning /\ "ended" \notin Scanning
      BY DEF Scanning
    <2> QED
      BY <2>1, <2>2, PcStep
  <1>13. ASSUME NEW j \in Runs, MarkFailedRaises(j)
         PROVE  Kept'
    <2>1. /\ run[j].pc = "failing" /\ run' = [run EXCEPT ![j].pc = "escaped"]
          /\ UNCHANGED <<source, store, watermark, exposed>>
      BY <1>13 DEF MarkFailedRaises
    <2>2. "failing" \notin Scanning /\ "escaped" \notin Scanning
      BY DEF Scanning
    <2> QED
      BY <2>1, <2>2, PcStep
  <1>14. ASSUME NEW j \in Runs, Crash(j)
         PROVE  Kept'
    <2>1. /\ run' = [run EXCEPT ![j] = At("crashed", run[j].todo)]
          /\ exposed' = ExposedAfter(j, watermark)
          /\ UNCHANGED <<source, store, watermark>>
      BY <1>14 DEF Crash
    <2>2. "crashed" \in PCs \ Scanning
      BY DEF PCs, Scanning
    <2> QED
      BY <2>1, <2>2, AbandonStep
  <1>15. ASSUME NEW k \in Resets, ResetStep(k)
         PROVE  Kept'
    <2>1. ASSUME NEW requested \in SUBSET Tables,
                 ResetDeleteChunks(k, requested)
          PROVE  Kept'
      BY <2>1, ResetDeleteChunksStep
    <2>2. ASSUME ResetDeleteWatermarks(k)
          PROVE  Kept'
      BY <2>2, ResetDeleteWatermarksStep
    <2>3. CASE UNCHANGED <<source, store, watermark, run, exposed>>
      BY <2>3, Still
    <2> QED
      BY <1>15, <2>1, <2>2, <2>3 DEF ResetStep, ResetNothing, ResetAborts
  <1>16. ASSUME ChatEnsuresTable
         PROVE  Kept'
    BY <1>16, Still DEF ChatEnsuresTable
  <1>17. ASSUME NEW t \in Tables, NEW r \in Rows, NEW new \in RowValues(t),
                EditSource(t, r, new)
         PROVE  Kept'
    BY <1>17, EditSourceStep
  <1>18. ASSUME UNCHANGED vars
         PROVE  Kept'
    <2>1. UNCHANGED <<source, store, watermark, run, exposed>>
      BY <1>18 DEF vars
    <2> QED
      BY <2>1, Still
  <1>19. Kept'
    <2> HIDE DEF Kept
    <2>1. ASSUME NEW j \in Runs, RunStep(j)
          PROVE  Kept'
      BY <2>1, <1>4, <1>5, <1>6, <1>7, <1>8, <1>9, <1>10, <1>11, <1>12, Zenon
         DEF RunStep
    <2>2. CASE Next
      BY <2>1, <2>2, <1>1, <1>2, <1>13, <1>14, <1>15, <1>16, <1>17, Zenon
         DEF Next
    <2> QED
      BY <2>2, <1>18
  <1> QED
    BY <1>t, <1>19 DEF IInv

\* A row that the next incremental scan of a table will not read is in the
\* vector store with its current content, whatever the number of tables, rows,
\* overlapping runs, crashes, failures and resets, and whatever the batch size:
\* SetWatermark comes after the flush of everything the scan read.
THEOREM WatermarkCorrect == Spec => []WatermarkSound
  <1>1. IInv => WatermarkSound
    BY DEF IInv
  <1> QED
    BY <1>1, IInvInit, IInvNext, PTL DEF Spec

\* Every row a scan owes to the vector store is accounted for at every step of
\* the scan, between two pages and between two batches as well.
THEOREM ProgressCorrect == Spec => []ScanProgress
  <1>1. IInv => ScanProgress
    BY DEF IInv
  <1> QED
    BY <1>1, IInvInit, IInvNext, PTL DEF Spec

\* A run that is about to write the watermark has left no row behind, in a
\* table with a watermark column or without one.
THEOREM ScanCorrect == Spec => []ScanIsComplete
  <1>1. IInv => ScanIsComplete
    <2> SUFFICES ASSUME IInv, NEW j \in Runs, run[j].pc = "mark",
                        NEW r \in Rows \ exposed[run[j].table],
                        Live(source[run[j].table][r])
                 PROVE  Stored(run[j].table, r)
      BY DEF ScanIsComplete
    <2>1. run[j].page = {} /\ run[j].pending = {} /\ run[j].eof = TRUE
      BY DEF IInv, Shape
    <2>2. Progress(j) /\ run[j].pc \in Scanning
      BY DEF IInv, ScanProgress, Scanning
    <2> QED
      BY <2>1, <2>2 DEF Progress, Stored
  <1> QED
    BY <1>1, IInvInit, IInvNext, PTL DEF Spec

-----------------------------------------------------------------------------
(* Batches: whole rows, in one pass over the table, with its own stamps.    *)

\* A list of pending chunks has all the chunks of the rows it has one of.
WholeIn(pending) ==
    \A c \in pending :
        /\ c.index < ChunkCount[c.row][c.version]
        /\ \A i \in Index : i < ChunkCount[c.row][c.version]
                => \E d \in pending : d.row = c.row /\ d.index = i
                                                    /\ d.version = c.version

\* Stamps are the table's own and above the cursor the scan started from.
StampsIn(t, since, page, max) ==
    /\ \A p \in page : p.stamp # 0 => t \in Watermarked /\ p.stamp > since
    /\ max # 0 => t \in Watermarked /\ max > since

\* Over the set S of rows that match: pending chunks are of rows before those
\* of the page, and both are inside the pages fetched.
PassIn(S, offset, eof, page, pending) ==
    /\ ~Duplicated(pending)
    /\ \A p, q \in page : p.row = q.row => p = q
    /\ \A c \in pending, p \in page : c.row < p.row
    /\ ~eof => \A x \in page \cup pending : x.row \in S
                                            /\ Rank(S, x.row) <= offset

\* A stamp above the running maximum is of a row still to come, on the page or
\* ahead of the pages fetched; the maximum is one of the table's stamps.
SeenIn(rows, since, offset, eof, page, max) ==
    /\ \A p \in page : p.stamp = rows[p.row].stamp
    /\ max # 0 => \E r \in Rows : rows[r].stamp = max
    /\ \A r \in Matching(rows, since) : rows[r].stamp > max =>
            \/ \E p \in page : p.row = r
            \/ ~eof /\ offset < Rank(Matching(rows, since), r)

Batch(j) ==
    LET me == run[j]
        t == me.table
    IN me.pc \in Scanning =>
        /\ WholeIn(me.pending)
        /\ StampsIn(t, me.since, me.page, me.max)
        /\ exposed[t] = {} =>
                /\ PassIn(Matching(source[t], me.since), me.offset,
                          me.eof, me.page, me.pending)
                /\ SeenIn(source[t], me.since, me.offset, me.eof, me.page,
                          me.max)

Batches == \A j \in Runs : Batch(j)

\* A run between two tables has none of the locals of a scan.
Fresh == \A j \in Runs : run[j].pc \notin Scanning
                            => run[j] = At(run[j].pc, run[j].todo)

\* A stored chunk is one of the chunks its row's version has.
Numbered == \A t \in Tables, r \in Rows, i \in Index :
                store[t][r][i] # 0 => i < ChunkCount[r][store[t][r][i]]

LEMMA AtMoves ==
    ASSUME NEW pc \in PCs, NEW todo \in SUBSET Tables, NEW new \in PCs
    PROVE  [At(pc, todo) EXCEPT !.pc = new] = At(new, todo)
  <1> DEFINE a == At(pc, todo)
             b == At(new, todo)
  <1>1. a \in RunState /\ b \in RunState
    BY AtType
  <1>2. /\ a.todo = todo /\ a.table = NoTable /\ a.since = 0
        /\ a.offset = 0 /\ a.page = {} /\ a.eof = FALSE
        /\ a.pending = {} /\ a.max = 0
    BY DEF At
  <1>3. /\ b.todo = todo /\ b.table = NoTable /\ b.since = 0
        /\ b.offset = 0 /\ b.page = {} /\ b.eof = FALSE
        /\ b.pending = {} /\ b.max = 0 /\ b.pc = new
    BY DEF At
  <1> HIDE DEF a, b
  <1>4. [a EXCEPT !.pc = new] = b
    BY <1>1, <1>2, <1>3 DEF RunState
  <1> QED
    BY <1>4 DEF a, b

LEMMA WholeAdds ==
    ASSUME NEW pending, WholeIn(pending), NEW p \in PageRow, NEW at
    PROVE  WholeIn(pending \cup ChunksOf(p, at))
  <1> DEFINE new == ChunksOf(p, at)
             chunk(i) == [row |-> p.row, index |-> i, version |-> p.version,
                          at |-> at]
  <1>1. \A i \in Index : i < ChunkCount[p.row][p.version] => chunk(i) \in new
    BY DEF ChunksOf
  <1>2. \A c \in new : /\ c.row = p.row /\ c.version = p.version
                       /\ c.index < ChunkCount[p.row][p.version]
    BY DEF ChunksOf
  <1>3. \A i \in Index : i < ChunkCount[p.row][p.version] =>
            \E d \in new : d.row = p.row /\ d.index = i /\ d.version = p.version
    <2> SUFFICES ASSUME NEW i \in Index, i < ChunkCount[p.row][p.version]
                 PROVE  \E d \in new : d.row = p.row /\ d.index = i
                                            /\ d.version = p.version
      OBVIOUS
    <2>1. chunk(i) \in new
      BY <1>1
    <2>2. chunk(i).row = p.row /\ chunk(i).index = i /\ chunk(i).version = p.version
      OBVIOUS
    <2> QED
      BY <2>1, <2>2
  <1> HIDE DEF new, chunk
  <1>4. ASSUME NEW c \in new
        PROVE  /\ c.index < ChunkCount[c.row][c.version]
               /\ \A i \in Index : i < ChunkCount[c.row][c.version]
                    => \E d \in pending \cup new : /\ d.row = c.row /\ d.index = i
                                                   /\ d.version = c.version
    BY <1>2, <1>3
  <1>5. ASSUME NEW c \in pending
        PROVE  /\ c.index < ChunkCount[c.row][c.version]
               /\ \A i \in Index : i < ChunkCount[c.row][c.version]
                    => \E d \in pending \cup new : /\ d.row = c.row /\ d.index = i
                                                   /\ d.version = c.version
    BY DEF WholeIn
  <1>6. WholeIn(pending \cup new)
    BY <1>4, <1>5 DEF WholeIn
  <1> QED
    BY <1>6 DEF new

\* A record whose chunks are in the table is there whole.
WholeRows(rows) ==
    0 \in Index => \A r \in Rows :
        rows[r][0] # 0 => \A i \in Index : i < ChunkCount[r][rows[r][0]]
                                => rows[r][i] = rows[r][0]

\* A batch that the database accepts has one version of a row, so that what it
\* writes of it is whole.
LEMMA UpsertWhole ==
    ASSUME NEW rows \in [Rows -> [Index -> 0..MaxVersion]], WholeRows(rows),
           NEW chunks \in SUBSET Chunk, WholeIn(chunks), ~Duplicated(chunks)
    PROVE  WholeRows(Upserted(rows, chunks))
  <1> DEFINE new == Upserted(rows, chunks)
  <1> SUFFICES ASSUME 0 \in Index, NEW r \in Rows, new[r][0] # 0,
                      NEW i \in Index, i < ChunkCount[r][new[r][0]]
               PROVE  new[r][i] = new[r][0]
    BY DEF WholeRows
  <1>1. \A c, d \in chunks : c.row = d.row /\ c.index = d.index => c = d
    BY DEF Duplicated
  <1>2. \A c \in chunks : c.index \in Index /\ c.index \in Nat /\ c.row \in Rows
                          /\ c.version \in 1..MaxVersion
    BY BoundsAssumption DEF Chunk, Index
  <1>3. \A k \in Index : \A c \in chunks :
            c.row = r /\ c.index = k => new[r][k] = c.version
    <2> SUFFICES ASSUME NEW k \in Index, NEW c \in chunks, c.row = r, c.index = k
                 PROVE  new[r][k] = c.version
      OBVIOUS
    <2>1. new[r][k] = (CHOOSE d \in chunks : d.row = r /\ d.index = k).version
      BY DEF Upserted
    <2>2. (CHOOSE d \in chunks : d.row = r /\ d.index = k) = c
      BY <1>1
    <2> QED
      BY <2>1, <2>2
  <1>4. \A k \in Index : (\A c \in chunks : ~(c.row = r /\ c.index = k))
                            => new[r][k] = rows[r][k]
    BY DEF Upserted
  <1> HIDE DEF new
  <1>5. CASE \E c \in chunks : c.row = r
    <2>1. PICK c \in chunks : c.row = r
      BY <1>5
    <2>2. 0 < ChunkCount[c.row][c.version]
      <3>1. c.index < ChunkCount[c.row][c.version] /\ c.index \in Nat
        BY <1>2 DEF WholeIn
      <3>2. ChunkCount[c.row][c.version] \in Nat
        BY <1>2, ChunkCountAssumption, BoundsAssumption
      <3> QED
        BY <3>1, <3>2
    <2>3. PICK d \in chunks : d.row = r /\ d.index = 0 /\ d.version = c.version
      BY <2>1, <2>2 DEF WholeIn
    <2>4. new[r][0] = d.version
      BY <1>3, <2>3
    <2>5. PICK e \in chunks : e.row = r /\ e.index = i /\ e.version = d.version
      BY <2>3, <2>4 DEF WholeIn
    <2> QED
      BY <1>3, <2>4, <2>5
  <1>6. CASE \A c \in chunks : c.row # r
    BY <1>4, <1>6 DEF WholeRows
  <1> QED
    BY <1>5, <1>6

\* A page comes behind what is pending.
LEMMA PassFetches ==
    ASSUME NEW t \in Tables, Types, NEW since, NEW offset \in Nat,
           NEW pending \in SUBSET Chunk,
           PassIn(Matching(source[t], since), offset, FALSE, {}, pending)
    PROVE  LET found == PageOf(source[t], since, offset)
               page == {[row |-> r, version |-> source[t][r].version,
                         stamp |-> source[t][r].stamp] : r \in found}
               eof == Cardinality(found) < BatchSize
           IN  PassIn(Matching(source[t], since),
                      IF eof THEN offset ELSE offset + BatchSize,
                      eof, page, pending)
  <1> DEFINE S == Matching(source[t], since)
             found == PageOf(source[t], since, offset)
             page == {[row |-> r, version |-> source[t][r].version,
                       stamp |-> source[t][r].stamp] : r \in found}
             eof == Cardinality(found) < BatchSize
  <1>1. S \in SUBSET Rows
    BY DEF Matching
  <1>2. \A p \in page : /\ p.row \in found
                        /\ p = [row |-> p.row, version |-> source[t][p.row].version,
                                stamp |-> source[t][p.row].stamp]
    OBVIOUS
  <1>3. \A r \in found : r \in S /\ offset < Rank(S, r)
                         /\ Rank(S, r) <= offset + BatchSize
    BY DEF PageOf
  <1>4. \A c \in pending : c.row \in S /\ Rank(S, c.row) <= offset
    BY DEF PassIn
  <1> HIDE DEF S, found, page, eof
  <1>5. \A p, q \in page : p.row = q.row => p = q
    BY <1>2
  <1>6. ASSUME NEW c \in pending, NEW p \in page
        PROVE  c.row < p.row
    <2>1. /\ c.row \in Rows /\ p.row \in Rows
          /\ c.row \in Nat /\ p.row \in Nat
          /\ Rank(S, c.row) \in Nat /\ Rank(S, p.row) \in Nat
      BY <1>1, <1>2, <1>3, <1>4, RowsAssumption, RankType
    <2>2. Rank(S, c.row) < Rank(S, p.row)
      BY <1>2, <1>3, <1>4, <2>1
    <2>3. ~(p.row <= c.row)
      <3>1. ASSUME p.row <= c.row
            PROVE  FALSE
        <4>1. Rank(S, p.row) <= Rank(S, c.row)
          BY <1>1, <2>1, <3>1, RankGrowsBoth
        <4> QED
          BY <2>1, <2>2, <4>1
      <3> QED
        BY <3>1
    <2> QED
      BY <2>1, <2>3
  <1>7. ASSUME NEW x \in page \cup pending
        PROVE  x.row \in S /\ Rank(S, x.row) <= offset + BatchSize
    <2>1. CASE x \in page
      BY <1>2, <1>3, <2>1
    <2>2. CASE x \in pending
      <3>1. x.row \in S /\ Rank(S, x.row) <= offset /\ Rank(S, x.row) \in Nat
        BY <1>1, <1>4, <2>2, RankType
      <3> QED
        BY <3>1, BatchSizeAssumption
    <2> QED
      BY <2>1, <2>2
  <1>8. ~Duplicated(pending)
    BY DEF PassIn
  <1>9. PassIn(S, IF eof THEN offset ELSE offset + BatchSize, eof, page, pending)
    BY <1>5, <1>6, <1>7, <1>8 DEF PassIn
  <1> QED
    BY <1>9 DEF S, found, page, eof

\* The first row of the page goes behind what is pending.
LEMMA PassTakes ==
    ASSUME NEW S \in SUBSET Rows, NEW offset, NEW eof, NEW page \in SUBSET PageRow,
           NEW pending \in SUBSET Chunk, PassIn(S, offset, eof, page, pending),
           NEW p \in page, \A q \in page : p.row <= q.row, NEW at
    PROVE  PassIn(S, offset, eof, page \ {p}, pending \cup ChunksOf(p, at))
  <1> DEFINE new == ChunksOf(p, at)
  <1>1. \A c \in new : c.row = p.row
    BY DEF ChunksOf
  <1>2. \A c, d \in new : c.index = d.index => c = d
    BY DEF ChunksOf
  <1> HIDE DEF new
  <1>3. \A q \in page : q.row \in Nat
    BY RowsAssumption DEF PageRow
  <1>4. \A c \in pending : c.row \in Nat
    BY RowsAssumption DEF Chunk
  <1>5. \A c \in pending, q \in page : c.row < q.row
    BY DEF PassIn
  <1>6. ~Duplicated(pending \cup new)
    <2> SUFFICES ASSUME NEW c \in pending \cup new, NEW d \in pending \cup new,
                        c.row = d.row, c.index = d.index
                 PROVE  c = d
      BY DEF Duplicated
    <2>1. CASE c \in pending /\ d \in pending
      BY <2>1 DEF PassIn, Duplicated
    <2>2. CASE c \in new /\ d \in new
      BY <1>2, <2>2
    <2>3. ~(c \in pending /\ d \in new) /\ ~(c \in new /\ d \in pending)
      BY <1>1, <1>3, <1>4, <1>5
    <2> QED
      BY <2>1, <2>2, <2>3
  <1>7. ASSUME NEW c \in pending \cup new, NEW q \in page \ {p}
        PROVE  c.row < q.row
    <2>1. p.row < q.row
      BY <1>3 DEF PassIn
    <2> QED
      BY <1>1, <1>5, <2>1
  <1>8. ~eof => \A x \in (page \ {p}) \cup (pending \cup new) :
                    x.row \in S /\ Rank(S, x.row) <= offset
    BY <1>1 DEF PassIn
  <1>9. PassIn(S, offset, eof, page \ {p}, pending \cup new)
    BY <1>6, <1>7, <1>8 DEF PassIn
  <1> QED
    BY <1>9 DEF new

\* A run that does not move, in a table that nobody edits or that an edit has
\* exposed a row of.
LEMMA BatchFrame ==
    ASSUME NEW i \in Runs, Batch(i), run'[i] = run[i],
           run[i].pc \in Scanning =>
              \/ exposed'[run[i].table] # {}
              \/ /\ source'[run[i].table] = source[run[i].table]
                 /\ exposed'[run[i].table] = {} => exposed[run[i].table] = {}
    PROVE  Batch(i)'
  BY DEF Batch

\* A step of run j that leaves the source alone.
LEMMA BatchStep ==
    ASSUME IInv, Batches, NEW j \in Runs, NEW new, run' = [run EXCEPT ![j] = new],
           source' = source, exposed' = exposed \/ \E marks : exposed' = ExposedAfter(j, marks),
           Batch(j)'
    PROVE  Batches'
  <1>1. \A i \in Runs \ {j} : run'[i] = run[i]
    BY DEF IInv, Types
  <1>2. ASSUME NEW i \in Runs \ {j} PROVE Batch(i)'
    <2>1. run[i].pc \in Scanning => exposed'[run[i].table] = exposed[run[i].table]
      BY Leaving
    <2> QED
      BY <1>1, <2>1, BatchFrame DEF Batches
  <1> QED
    BY <1>2 DEF Batches

LEMMA BatchQuiet ==
    ASSUME IInv, Batches, NEW j \in Runs, NEW new, run' = [run EXCEPT ![j] = new],
           new.pc \notin Scanning,
           source' = source, exposed' = exposed \/ \E marks : exposed' = ExposedAfter(j, marks)
    PROVE  Batches'
  <1>1. run'[j] = new
    BY DEF IInv, Types
  <1>2. Batch(j)'
    BY <1>1 DEF Batch
  <1> QED
    BY <1>2, BatchStep

LEMMA BatchPc ==
    ASSUME IInv, Batches, NEW j \in Runs, NEW pc, run' = [run EXCEPT ![j].pc = pc],
           pc \notin Scanning, source' = source, exposed' = exposed
    PROVE  Batches'
  <1> DEFINE new == [run[j] EXCEPT !.pc = pc]
  <1>1. run' = [run EXCEPT ![j] = new]
    BY DEF IInv, Types
  <1>2. new.pc = pc
    BY DEF IInv, Types, RunState
  <1> HIDE DEF new
  <1> QED
    BY <1>1, <1>2, BatchQuiet

\* The locals of a scan are what the code initialises them with.
LEMMA BatchReadWatermark ==
    ASSUME IInv, Batches, Fresh, NEW j \in Runs, NEW t \in Tables, ReadWatermark(j, t)
    PROVE  Batches'
  <1> DEFINE new == [run[j] EXCEPT !.pc = "scan", !.table = t,
                                   !.since = watermark[t]]
  <1>1. run' = [run EXCEPT ![j] = new] /\ source' = source /\ exposed' = exposed
        /\ run[j].pc = "next"
    BY DEF ReadWatermark, IInv, Types
  <1>2. /\ new.pc = "scan" /\ new.table = t /\ new.page = {} /\ new.pending = {}
        /\ new.max = 0 /\ new.offset = 0 /\ new.eof = FALSE
    <2>1. /\ run[j].page = {} /\ run[j].pending = {} /\ run[j].max = 0
          /\ run[j].offset = 0 /\ run[j].eof = FALSE
      <3>1. run[j] = At(run[j].pc, run[j].todo)
        BY <1>1 DEF Fresh, Scanning
      <3> DEFINE pc == run[j].pc
                 todo == run[j].todo
      <3> HIDE DEF pc, todo
      <3>2. /\ At(pc, todo).page = {} /\ At(pc, todo).pending = {}
            /\ At(pc, todo).max = 0 /\ At(pc, todo).offset = 0
            /\ At(pc, todo).eof = FALSE
        BY DEF At
      <3> QED
        BY <3>1, <3>2, Zenon DEF pc, todo
    <2>2. run[j] \in RunState
      BY DEF IInv, Types
    <2> QED
      BY <2>1, <2>2 DEF RunState
  <1> HIDE DEF new
  <1>3. run'[j] = new
    BY <1>1 DEF IInv, Types
  <1>4. SeenIn(source[t], new.since, 0, FALSE, {}, 0)
    <2> DEFINE S == Matching(source[t], new.since)
    <2> SUFFICES ASSUME NEW r \in S PROVE 0 < Rank(S, r)
      BY DEF SeenIn
    <2>1. S \in SUBSET Rows /\ r \in {q \in S : q <= r}
      BY RowsAssumption DEF Matching
    <2>2. IsFiniteSet({q \in S : q <= r}) /\ Rank(S, r) \in Nat
      BY <2>1, RankType
    <2>3. Rank(S, r) # 0
      BY <2>1, <2>2, FS_EmptySet DEF Rank
    <2> QED
      BY <2>2, <2>3
  <1>5. Batch(j)'
    BY <1>1, <1>2, <1>3, <1>4 DEF Batch, WholeIn, StampsIn, PassIn, Duplicated
  <1> QED
    BY <1>1, <1>5, BatchStep

\* FetchPage reads rows above the cursor, in pages that do not overlap.
LEMMA BatchFetchPage ==
    ASSUME IInv, Batches, NEW j \in Runs, FetchPage(j)
    PROVE  Batches'
  <1> DEFINE me == run[j]
             t == me.table
             rows == source[t]
             found == PageOf(rows, me.since, me.offset)
             page == {[row |-> r, version |-> rows[r].version,
                       stamp |-> rows[r].stamp] : r \in found}
             eof == Cardinality(found) < BatchSize
             offset == IF eof THEN me.offset ELSE me.offset + BatchSize
             new == [me EXCEPT !.pc = Resume(page, me.pending, eof),
                               !.page = page, !.eof = eof,
                               !.offset = offset]
  <1>1. /\ me.pc = "scan"
        /\ run' = [run EXCEPT ![j] = new]
        /\ source' = source /\ exposed' = exposed
    BY Zenon DEF FetchPage
  <1>2. /\ run \in [Runs -> RunState] /\ me \in RunState /\ t \in Tables
        /\ me.offset \in Nat /\ me.pending \in SUBSET Chunk /\ me.since \in 0..MaxStamp
    BY <1>1 DEF IInv, Types, RunState, Scanning
  <1>3. /\ WholeIn(me.pending)
        /\ StampsIn(t, me.since, me.page, me.max)
        /\ exposed[t] = {} =>
                /\ PassIn(Matching(rows, me.since), me.offset,
                          me.eof, me.page, me.pending)
                /\ SeenIn(rows, me.since, me.offset, me.eof, me.page, me.max)
        /\ me.page = {} /\ me.eof = FALSE
    BY <1>1 DEF Batches, Batch, Scanning, IInv, Shape
  <1>4. exposed[t] = {} => PassIn(Matching(rows, me.since), offset, eof, page,
                                  me.pending)
    BY <1>2, <1>3, PassFetches DEF IInv
  <1>5. StampsIn(t, me.since, page, me.max)
    <2>1. ASSUME NEW r \in found, rows[r].stamp # 0
          PROVE  t \in Watermarked /\ rows[r].stamp > me.since
      <3>1. r \in Rows /\ Qualifies(rows[r], me.since)
        BY DEF PageOf, Matching
      <3>2. rows[r] \in RowValues(t) /\ rows[r].stamp \in 0..MaxStamp
        BY <1>2, <3>1 DEF IInv, Types
      <3>3. t \in Watermarked
        BY <2>1, <3>2 DEF RowValues, Absent
      <3>4. rows[r].stamp > me.since
        BY <1>2, <2>1, <3>1, <3>2, BoundsAssumption DEF Qualifies
      <3> QED
        BY <3>3, <3>4
    <2>2. \A p \in page : p.row \in found /\ p.stamp = rows[p.row].stamp
      OBVIOUS
    <2> HIDE DEF page, found
    <2>3. \A p \in page : p.stamp # 0 => t \in Watermarked /\ p.stamp > me.since
      BY <2>1, <2>2
    <2> QED
      BY <1>3, <2>3 DEF StampsIn
  <1>6. /\ new.page = page /\ new.pending = me.pending
        /\ new.eof = eof /\ new.offset = offset
        /\ new.table = t /\ new.since = me.since /\ new.max = me.max
    <2> HIDE DEF me, page, eof, offset
    <2> QED
      BY <1>2 DEF RunState
  <1>7. run'[j] = new
    BY <1>1, <1>2
  <1>8. ASSUME exposed[t] = {}
        PROVE  SeenIn(rows, me.since, offset, eof, page, me.max)
    <2> DEFINE S == Matching(rows, me.since)
    <2>1. \A p \in page : p.stamp = rows[p.row].stamp
      OBVIOUS
    <2>2. ASSUME NEW r \in S, rows[r].stamp > me.max
          PROVE  \/ \E p \in page : p.row = r
                 \/ ~eof /\ offset < Rank(S, r)
      <3>1. me.offset < Rank(S, r)
        BY <1>3, <1>8, <2>2 DEF SeenIn
      <3>2. CASE r \in found
        <4>1. [row |-> r, version |-> rows[r].version,
               stamp |-> rows[r].stamp] \in page
          BY <3>2
        <4> QED
          BY <4>1
      <3>3. CASE r \notin found
        BY <1>2, <3>1, <3>3, FullPage
      <3> QED
        BY <3>2, <3>3
    <2> HIDE DEF page, eof, offset
    <2> QED
      BY <1>3, <1>8, <2>1, <2>2 DEF SeenIn
  <1> HIDE DEF new, page, eof, offset
  <1>9. Batch(j)'
    BY <1>1, <1>3, <1>4, <1>5, <1>6, <1>7, <1>8 DEF Batch
  <1> QED
    BY <1>1, <1>9, BatchStep

LEMMA BatchProcessRow ==
    ASSUME IInv, Batches, NEW j \in Runs, ProcessRow(j)
    PROVE  Batches'
  <1> DEFINE me == run[j]
             t == me.table
  <1>1. PICK p \in me.page :
          /\ \A q \in me.page : p.row <= q.row
          /\ run' = [run EXCEPT ![j] =
              [me EXCEPT
                 !.pc = IF Cardinality(me.pending \cup ChunksOf(p, me.offset))
                                >= BatchSize
                        THEN "flush"
                        ELSE Resume(me.page \ {p},
                                    me.pending \cup ChunksOf(p, me.offset),
                                    me.eof),
                 !.page = me.page \ {p},
                 !.pending = me.pending \cup ChunksOf(p, me.offset),
                 !.max = IF p.stamp > @ THEN p.stamp ELSE @]]
    BY Zenon DEF ProcessRow
  <1> DEFINE page == me.page \ {p}
             pending == me.pending \cup ChunksOf(p, me.offset)
             pc == IF Cardinality(pending) >= BatchSize THEN "flush"
                   ELSE Resume(page, pending, me.eof)
             max == IF p.stamp > me.max THEN p.stamp ELSE me.max
             new == [me EXCEPT !.pc = pc, !.page = page, !.pending = pending,
                               !.max = IF p.stamp > @ THEN p.stamp ELSE @]
  <1>2. me.pc = "rows" /\ source' = source /\ exposed' = exposed
    BY DEF ProcessRow
  <1>3. /\ run \in [Runs -> RunState] /\ me \in RunState /\ p \in PageRow
        /\ me.page \in SUBSET PageRow /\ me.pending \in SUBSET Chunk
        /\ Matching(source[t], me.since) \in SUBSET Rows
    BY DEF IInv, Types, RunState, Matching
  <1>4. /\ WholeIn(me.pending)
        /\ StampsIn(t, me.since, me.page, me.max)
        /\ exposed[t] = {} =>
                /\ PassIn(Matching(source[t], me.since), me.offset,
                          me.eof, me.page, me.pending)
                /\ SeenIn(source[t], me.since, me.offset, me.eof, me.page,
                          me.max)
    BY <1>2 DEF Batches, Batch, Scanning
  <1>5. /\ new.page = page /\ new.pending = pending /\ new.max = max
        /\ new.eof = me.eof /\ new.offset = me.offset
        /\ new.table = t /\ new.since = me.since
    <2> HIDE DEF me, page, pending, pc
    <2> QED
      BY <1>3 DEF RunState
  <1>6. run'[j] = new /\ run' = [run EXCEPT ![j] = new]
    BY <1>1, <1>3
  <1>7. WholeIn(pending)
    BY <1>3, <1>4, WholeAdds
  <1>8. StampsIn(t, me.since, page, max)
    BY <1>4 DEF StampsIn
  <1>9. exposed[t] = {} => PassIn(Matching(source[t], me.since), me.offset,
                                  me.eof, page, pending)
    BY <1>1, <1>3, <1>4, PassTakes
  <1>10. ASSUME exposed[t] = {}
         PROVE  SeenIn(source[t], me.since, me.offset, me.eof, page, max)
    <2>1. SeenIn(source[t], me.since, me.offset, me.eof, me.page, me.max)
      BY <1>4, <1>10
    <2>2. /\ p.row \in Rows /\ p.stamp = source[t][p.row].stamp
          /\ p.stamp \in 0..MaxStamp /\ me.max \in 0..MaxStamp
          /\ \A r \in Rows : source[t][r].stamp \in 0..MaxStamp
      BY <1>2, <1>3, <2>1 DEF SeenIn, PageRow, RunState, IInv, Types, Scanning
    <2>3. ASSUME max # 0
          PROVE  \E r \in Rows : source[t][r].stamp = max
      BY <2>1, <2>2, <2>3 DEF SeenIn
    <2>4. ASSUME NEW r \in Matching(source[t], me.since),
                 source[t][r].stamp > max
          PROVE  \/ \E q \in page : q.row = r
                 \/ ~me.eof /\ me.offset < Rank(Matching(source[t], me.since), r)
      <3>1. r \in Rows /\ source[t][r].stamp > me.max /\ r # p.row
        BY <2>2, <2>4 DEF Matching
      <3> HIDE DEF max
      <3> QED
        BY <2>1, <3>1 DEF SeenIn
    <2> HIDE DEF max
    <2> QED
      BY <2>1, <2>3, <2>4 DEF SeenIn
  <1> HIDE DEF new, page, pending, pc, max
  <1>11. Batch(j)'
    BY <1>2, <1>5, <1>6, <1>7, <1>8, <1>9, <1>10 DEF Batch
  <1> QED
    BY <1>2, <1>6, <1>11, BatchStep

LEMMA BatchFlush ==
    ASSUME IInv, Batches, NEW j \in Runs, Flush(j)
    PROVE  Batches'
  <1> DEFINE me == run[j]
             t == me.table
             new == [me EXCEPT !.pc = Resume(me.page, {}, me.eof),
                               !.pending = {}]
  <1>1. /\ me.pc = "flush" /\ run' = [run EXCEPT ![j] = new]
        /\ source' = source /\ exposed' = exposed
    BY DEF Flush
  <1>2. run \in [Runs -> RunState] /\ me \in RunState
    BY DEF IInv, Types
  <1>3. /\ new.page = me.page /\ new.pending = {} /\ new.max = me.max
        /\ new.eof = me.eof /\ new.offset = me.offset
        /\ new.table = t /\ new.since = me.since
    <2> HIDE DEF me
    <2> QED
      BY <1>2 DEF RunState
  <1>4. run'[j] = new
    BY <1>1, <1>2
  <1>5. /\ StampsIn(t, me.since, me.page, me.max)
        /\ exposed[t] = {} =>
                /\ PassIn(Matching(source[t], me.since), me.offset,
                          me.eof, me.page, me.pending)
                /\ SeenIn(source[t], me.since, me.offset, me.eof, me.page,
                          me.max)
    BY <1>1 DEF Batches, Batch, Scanning
  <1>6. WholeIn({})
    BY DEF WholeIn
  <1>7. exposed[t] = {} => PassIn(Matching(source[t], me.since), me.offset,
                                  me.eof, me.page, {})
    BY <1>5 DEF PassIn, Duplicated
  <1> HIDE DEF new
  <1>8. Batch(j)'
    BY <1>1, <1>3, <1>4, <1>5, <1>6, <1>7 DEF Batch
  <1> QED
    BY <1>1, <1>8, BatchStep

\* A reset only ever adds to what is exposed of a table that is being read, and
\* an edit exposes a row of it.
LEMMA BatchReset ==
    ASSUME IInv, Batches, NEW k \in Resets, ResetStep(k)
    PROVE  Batches'
  <1>1. run' = run /\ source' = source
    BY DEF ResetStep, ResetDeleteChunks, ResetNothing, ResetDeleteWatermarks,
           ResetAborts
  <1>2. ASSUME NEW i \in Runs, run[i].pc \in Scanning,
               exposed'[run[i].table] = {}
        PROVE  exposed[run[i].table] = {}
    <2> DEFINE t == run[i].table
    <2>1. /\ t \in Tables /\ Active(t) # {}
          /\ exposed \in [Tables -> SUBSET Rows]
      BY <1>2 DEF IInv, Types, RunState, Active
    <2>2. exposed'[t] = exposed[t] \/ exposed'[t] = Rows
      <3>1. ASSUME NEW requested \in SUBSET Tables,
                   ResetDeleteChunks(k, requested)
            PROVE  exposed'[t] = exposed[t] \/ exposed'[t] = Rows
        BY <2>1, <3>1 DEF ResetDeleteChunks, Settle
      <3>2. ASSUME ResetDeleteWatermarks(k)
            PROVE  exposed'[t] = exposed[t]
        BY <2>1, <3>2 DEF ResetDeleteWatermarks, Settle
      <3> QED
        BY <3>1, <3>2 DEF ResetStep, ResetNothing, ResetAborts
    <2> QED
      BY <1>2, <2>1, <2>2
  <1> QED
    BY <1>1, <1>2, BatchFrame DEF Batches

LEMMA BatchEdit ==
    ASSUME IInv, Batches, NEW t \in Tables, NEW r \in Rows, NEW new \in RowValues(t),
           EditSource(t, r, new)
    PROVE  Batches'
  <1>1. run' = run
    BY DEF EditSource
  <1>2. /\ source \in [Tables -> [Rows -> [version : 0..MaxVersion,
                                           stamp : 0..MaxStamp]]]
        /\ exposed \in [Tables -> SUBSET Rows]
    BY DEF IInv, Types
  <1>3. \A u \in Tables \ {t} : source'[u] = source[u] /\ exposed'[u] = exposed[u]
    BY <1>2 DEF EditSource
  <1>4. Active(t) # {} => r \in exposed'[t]
    BY <1>2 DEF EditSource, Settle
  <1>5. ASSUME NEW i \in Runs
        PROVE  Batch(i)'
    <2>1. run[i].pc \in Scanning =>
              \/ exposed'[run[i].table] # {}
              \/ /\ source'[run[i].table] = source[run[i].table]
                 /\ exposed'[run[i].table] = {} => exposed[run[i].table] = {}
      BY <1>3, <1>4 DEF IInv, Types, RunState, Active
    <2> QED
      BY <1>1, <2>1, BatchFrame DEF Batches
  <1> QED
    BY <1>5 DEF Batches

-----------------------------------------------------------------------------
(* The steps together.                                                     *)

BInv == IInv /\ Fresh /\ Batches /\ RecordsWhole /\ Numbered

LEMMA BInvInit == Init => BInv
  <1> SUFFICES ASSUME Init PROVE BInv
    OBVIOUS
  <1>1. \A j \in Runs : run[j] = At("new", {}) /\ "new" \notin Scanning
    BY DEF Init, Scanning
  <1>2. Fresh /\ Batches
    <2>1. ASSUME NEW j \in Runs
          PROVE  /\ run[j].pc = "new" /\ run[j].todo = {}
                 /\ run[j].pc \notin Scanning
      <3>1. At("new", {}).pc = "new" /\ At("new", {}).todo = {}
        BY DEF At
      <3> QED
        BY <1>1, <3>1
    <2> QED
      BY <1>1, <2>1 DEF Fresh, Batches, Batch
  <1>4. Numbered
    BY DEF Init, Numbered, NoChunks
  <1>3. RecordsWhole
    BY DEF Init, RecordsWhole, NoChunks
  <1> QED
    BY <1>2, <1>3, <1>4, IInvInit DEF BInv

LEMMA FreshNext ==
    ASSUME IInv, Fresh, [Next]_vars
    PROVE  Fresh'
  <1>1. run \in [Runs -> RunState]
    BY DEF IInv, Types
  <1>2. ASSUME NEW j \in Runs, NEW pc \in PCs,
               run' = [run EXCEPT ![j].pc = pc], run[j].pc \notin Scanning
        PROVE  Fresh'
    <2> DEFINE old == run[j]
               todo == old.todo
    <2>1. old = At(old.pc, todo)
      BY <1>2 DEF Fresh
    <2>2. [old EXCEPT !.pc = pc] = At(pc, todo)
      <3> DEFINE was == old.pc
      <3> HIDE DEF was, todo, old
      <3>1. /\ old = At(was, todo)
            /\ was \in PCs /\ todo \in SUBSET Tables
        BY <1>1, <2>1 DEF was, old, todo, RunState
      <3>2. [At(was, todo) EXCEPT !.pc = pc] = At(pc, todo)
        BY <3>1, AtMoves
      <3> QED
        BY <3>1, <3>2, Zenon
    <2>3. At(pc, todo).pc = pc /\ At(pc, todo).todo = todo
      BY DEF At
    <2>4. run'[j] = At(pc, todo) /\ \A i \in Runs \ {j} : run'[i] = run[i]
      BY <1>1, <1>2, <2>2
    <2> HIDE DEF todo, old
    <2> QED
      BY <2>3, <2>4 DEF Fresh
  <1>3. ASSUME NEW j \in Runs, NEW pc, NEW todo, run' = [run EXCEPT ![j] = At(pc, todo)]
        PROVE  Fresh'
    BY <1>1, <1>3 DEF Fresh, At
  <1>4. ASSUME NEW j \in Runs, NEW new, run' = [run EXCEPT ![j] = new],
               new.pc \in Scanning
        PROVE  Fresh'
    BY <1>1, <1>4 DEF Fresh
  <1>5. ASSUME NEW j \in Runs, NEW requested, StartIngestion(j, requested)
        PROVE  Fresh'
    BY <1>3, <1>5 DEF StartIngestion
  <1>6. ASSUME NEW j \in Runs, StartCli(j)
        PROVE  Fresh'
    BY <1>3, <1>6 DEF StartCli
  <1>7. ASSUME NEW j \in Runs,
               MarkRunning(j) \/ Finish(j) \/ MarkFailed(j) \/ MarkFailedRaises(j)
        PROVE  Fresh'
    BY <1>2, <1>7 DEF MarkRunning, Finish, MarkFailed, MarkFailedRaises,
                      Scanning, PCs
  <1>8. ASSUME NEW j \in Runs, SetWatermark(j) \/ Raise(j) \/ Crash(j)
        PROVE  Fresh'
    <2>1. CASE SetWatermark(j)
      BY <1>3, <2>1 DEF SetWatermark
    <2>2. CASE Raise(j)
      BY <1>3, <2>2 DEF Raise
    <2>3. CASE Crash(j)
      BY <1>3, <2>3 DEF Crash
    <2> QED
      BY <1>8, <2>1, <2>2, <2>3
  <1>9. ASSUME NEW j \in Runs, NEW t \in Tables, ReadWatermark(j, t)
        PROVE  Fresh'
    <2> DEFINE new == [run[j] EXCEPT !.pc = "scan", !.table = t,
                                     !.since = watermark[t]]
    <2>1. run' = [run EXCEPT ![j] = new]
      BY <1>1, <1>9 DEF ReadWatermark
    <2>2. new.pc \in Scanning
      BY <1>1 DEF RunState, Scanning
    <2> HIDE DEF new
    <2> QED
      BY <1>4, <2>1, <2>2
  <1>10. ASSUME NEW j \in Runs, FetchPage(j) \/ ProcessRow(j) \/ Flush(j)
         PROVE  Fresh'
    <2>1. \A i \in Runs \ {j} : run'[i] = run[i]
      BY <1>1, <1>10 DEF FetchPage, ProcessRow, Flush
    <2>2. run'[j].pc \in Scanning
      <3> USE DEF RunState
      <3>1. CASE FetchPage(j)
        BY <1>1, <3>1, ResumeType DEF FetchPage
      <3>2. CASE ProcessRow(j)
        BY <1>1, <3>2, ResumeType DEF ProcessRow, Scanning
      <3>3. CASE Flush(j)
        BY <1>1, <3>3, ResumeType DEF Flush
      <3> QED
        BY <1>10, <3>1, <3>2, <3>3
    <2> QED
      BY <2>1, <2>2 DEF Fresh
  <1>11. CASE run' = run
    BY <1>11 DEF Fresh
  <1>12. ASSUME NEW k \in Resets, ResetStep(k)
         PROVE  run' = run
    BY <1>12 DEF ResetStep, ResetDeleteChunks, ResetNothing,
                 ResetDeleteWatermarks, ResetAborts
  <1>13. ASSUME NEW t \in Tables, NEW r \in Rows, NEW new \in RowValues(t),
                EditSource(t, r, new)
         PROVE  run' = run
    BY <1>13 DEF EditSource
  <1>14. ChatEnsuresTable \/ UNCHANGED vars => run' = run
    BY DEF ChatEnsuresTable, vars
  <1>15. ASSUME NEW j \in Runs, RunStep(j)
         PROVE  Fresh'
    BY <1>7, <1>8, <1>9, <1>10, <1>15, Zenon DEF RunStep
  <1> QED
    BY <1>5, <1>6, <1>7, <1>8, <1>11, <1>12, <1>13, <1>14, <1>15, Zenon DEF Next

LEMMA BatchesNext ==
    ASSUME IInv, Fresh, Batches, [Next]_vars
    PROVE  Batches'
  <1>1. ASSUME NEW j \in Runs, NEW requested, StartIngestion(j, requested)
        PROVE  Batches'
    <2> DEFINE new == At("created", IF requested = {} THEN Tables ELSE requested)
    <2>1. run' = [run EXCEPT ![j] = new] /\ source' = source /\ exposed' = exposed
      BY <1>1 DEF StartIngestion
    <2>2. new.pc \notin Scanning
      BY DEF At, Scanning
    <2> HIDE DEF new
    <2> QED
      BY <2>1, <2>2, BatchQuiet
  <1>2. ASSUME NEW j \in Runs, StartCli(j)
        PROVE  Batches'
    <2>1. /\ run' = [run EXCEPT ![j] = At("next", Tables)]
          /\ source' = source /\ exposed' = exposed
      BY <1>2 DEF StartCli
    <2>2. At("next", Tables).pc \notin Scanning
      BY DEF At, Scanning
    <2> QED
      BY <2>1, <2>2, BatchQuiet
  <1>3. ASSUME NEW j \in Runs,
               MarkRunning(j) \/ Finish(j) \/ MarkFailed(j) \/ MarkFailedRaises(j)
        PROVE  Batches'
    <2>1. PICK pc \in {"next", "ended", "escaped"} :
              /\ run' = [run EXCEPT ![j].pc = pc]
              /\ source' = source /\ exposed' = exposed
      BY <1>3 DEF MarkRunning, Finish, MarkFailed, MarkFailedRaises
    <2>2. pc \notin Scanning
      BY DEF Scanning
    <2> QED
      BY <2>1, <2>2, BatchPc
  <1>4. ASSUME NEW j \in Runs, SetWatermark(j) \/ Raise(j) \/ Crash(j)
        PROVE  Batches'
    <2>1. PICK pc \in {"next", "ended", "failing", "crashed"}, todo \in {run[j].todo,
                      run[j].todo \ {run[j].table}} :
              run' = [run EXCEPT ![j] = At(pc, todo)]
      BY <1>4 DEF SetWatermark, Raise, Crash
    <2>2. source' = source /\ \E marks : exposed' = ExposedAfter(j, marks)
      BY <1>4 DEF SetWatermark, Raise, Crash
    <2>3. At(pc, todo).pc \notin Scanning
      BY DEF At, Scanning
    <2> QED
      BY <2>1, <2>2, <2>3, BatchQuiet
  <1>5. ASSUME NEW j \in Runs, RunStep(j)
        PROVE  Batches'
    BY <1>3, <1>4, <1>5, BatchReadWatermark, BatchFetchPage, BatchProcessRow,
       BatchFlush, Zenon DEF RunStep
  <1>6. ASSUME ChatEnsuresTable \/ UNCHANGED vars
        PROVE  Batches'
    <2>1. run' = run /\ source' = source /\ exposed' = exposed
      BY <1>6 DEF ChatEnsuresTable, vars
    <2> QED
      BY <2>1, BatchFrame DEF Batches
  <1> QED
    BY <1>1, <1>2, <1>3, <1>4, <1>5, <1>6, BatchReset, BatchEdit, Zenon DEF Next

\* Who writes chunks: a flush, and the first transaction of a reset.
LEMMA StoreWrites ==
    ASSUME [Next]_vars, store' # store
    PROVE  \/ \E j \in Runs : Flush(j)
           \/ \E k \in Resets, requested \in SUBSET Tables :
                    ResetDeleteChunks(k, requested)
  <1>1. ASSUME NEW k \in Resets, ResetStep(k)
        PROVE  \E requested \in SUBSET Tables : ResetDeleteChunks(k, requested)
    BY <1>1 DEF ResetStep, ResetNothing, ResetDeleteWatermarks, ResetAborts
  <1>2. ASSUME NEW j \in Runs, RunStep(j)
        PROVE  Flush(j)
    BY <1>2 DEF RunStep, MarkRunning, ReadWatermark, FetchPage, ProcessRow,
                SetWatermark, Finish, Raise, MarkFailed
  <1>3. ASSUME NEW j \in Runs, NEW requested, StartIngestion(j, requested)
        PROVE  FALSE
    BY <1>3 DEF StartIngestion
  <1>4. ASSUME NEW j \in Runs, StartCli(j) \/ MarkFailedRaises(j) \/ Crash(j)
        PROVE  FALSE
    BY <1>4 DEF StartCli, MarkFailedRaises, Crash
  <1>5. ASSUME NEW t \in Tables, NEW r \in Rows, NEW new \in RowValues(t),
               EditSource(t, r, new)
        PROVE  FALSE
    BY <1>5 DEF EditSource
  <1>6. ~ChatEnsuresTable /\ ~UNCHANGED vars
    BY DEF ChatEnsuresTable, vars
  <1> QED
    BY <1>1, <1>2, <1>3, <1>4, <1>5, <1>6, Zenon DEF Next

\* What a flush does to the table of its run.
LEMMA FlushUpserts ==
    ASSUME IInv, Batches, NEW j \in Runs, Flush(j)
    PROVE  LET t == run[j].table
               chunks == run[j].pending
           IN /\ t \in Tables /\ chunks \in SUBSET Chunk
              /\ ~Duplicated(chunks) /\ WholeIn(chunks)
              /\ store' = [store EXCEPT ![t] = Upserted(store[t], chunks)]
  <1>1. run[j].pc \in Scanning
    BY DEF Flush, Scanning
  <1> QED
    BY <1>1 DEF Flush, IInv, Types, RunState, Batches, Batch

LEMMA RecordsNext ==
    ASSUME IInv, Batches, RecordsWhole, [Next]_vars
    PROVE  RecordsWhole'
  <1>1. \A t \in Tables : WholeRows(store[t])
    BY DEF RecordsWhole, WholeRows
  <1>2. store \in [Tables -> [Rows -> [Index -> 0..MaxVersion]]]
    BY DEF IInv, Types
  <1>3. SUFFICES \A t \in Tables : WholeRows(store'[t])
    BY DEF RecordsWhole, WholeRows
  <1>4. CASE store' = store
    BY <1>1, <1>4
  <1>5. ASSUME NEW j \in Runs, Flush(j)
        PROVE  \A t \in Tables : WholeRows(store'[t])
    <2> DEFINE t == run[j].table
               chunks == run[j].pending
    <2>1. /\ t \in Tables /\ chunks \in SUBSET Chunk
          /\ ~Duplicated(chunks) /\ WholeIn(chunks)
          /\ store' = [store EXCEPT ![t] = Upserted(store[t], chunks)]
      BY <1>5, FlushUpserts
    <2>2. WholeRows(Upserted(store[t], chunks))
      BY <1>1, <1>2, <2>1, UpsertWhole
    <2> QED
      BY <1>1, <1>2, <2>1, <2>2
  <1>6. ASSUME NEW k \in Resets, NEW requested, ResetDeleteChunks(k, requested)
        PROVE  \A t \in Tables : WholeRows(store'[t])
    <2>1. WholeRows(NoChunks)
      BY DEF WholeRows, NoChunks
    <2> QED
      BY <1>1, <1>6, <2>1 DEF ResetDeleteChunks
  <1> QED
    BY <1>4, <1>5, <1>6, StoreWrites

LEMMA NumberedNext ==
    ASSUME IInv, Batches, Numbered, [Next]_vars
    PROVE  Numbered'
  <1>1. store \in [Tables -> [Rows -> [Index -> 0..MaxVersion]]]
    BY DEF IInv, Types
  <1>2. CASE store' = store
    BY <1>2 DEF Numbered
  <1>3. ASSUME NEW j \in Runs, Flush(j)
        PROVE  Numbered'
    <2> DEFINE t == run[j].table
               chunks == run[j].pending
               cells == Upserted(store[t], chunks)
    <2>1. /\ t \in Tables /\ chunks \in SUBSET Chunk /\ WholeIn(chunks)
          /\ store' = [store EXCEPT ![t] = cells]
      BY <1>3, FlushUpserts
    <2>2. ASSUME NEW r \in Rows, NEW i \in Index, cells[r][i] # 0
          PROVE  i < ChunkCount[r][cells[r][i]]
      <3> DEFINE c == CHOOSE c \in chunks : c.row = r /\ c.index = i
      <3>1. CASE \E d \in chunks : d.row = r /\ d.index = i
        <4>1. c \in chunks /\ c.row = r /\ c.index = i
          BY <3>1
        <4>2. cells[r][i] = c.version
          BY <3>1 DEF Upserted
        <4> HIDE DEF c
        <4> QED
          BY <2>1, <4>1, <4>2 DEF WholeIn
      <3>2. CASE ~\E d \in chunks : d.row = r /\ d.index = i
        <4>1. cells[r][i] = store[t][r][i]
          BY <3>2 DEF Upserted
        <4> QED
          BY <2>1, <2>2, <4>1 DEF Numbered
      <3> QED
        BY <3>1, <3>2
    <2> HIDE DEF cells
    <2> QED
      BY <1>1, <2>1, <2>2 DEF Numbered
  <1>4. ASSUME NEW k \in Resets, NEW requested, ResetDeleteChunks(k, requested)
        PROVE  Numbered'
    BY <1>4 DEF ResetDeleteChunks, Numbered, NoChunks
  <1> QED
    BY <1>2, <1>3, <1>4, StoreWrites

LEMMA BInvNext == BInv /\ [Next]_vars => BInv'
  <1> SUFFICES ASSUME BInv, [Next]_vars PROVE BInv'
    OBVIOUS
  <1>1. IInv /\ Fresh /\ Batches /\ RecordsWhole /\ Numbered
    BY DEF BInv
  <1>2. IInv'
    BY <1>1, IInvNext
  <1>3. Fresh' /\ Batches' /\ RecordsWhole' /\ Numbered'
    BY <1>1, FreshNext, BatchesNext, RecordsNext, NumberedNext
  <1> QED
    BY <1>2, <1>3 DEF BInv

\* Types, of which the ranges of the variables are the smaller part: no chunk,
\* pending or stored, has an index its row's version does not reach, and what
\* _ingest_table keeps in locals is gone once a run has left it, however it
\* left.
THEOREM TypeCorrect == Spec => []TypeOK
  <1>1. BInv => TypeOK
    <2> SUFFICES ASSUME BInv PROVE TypeOK
      OBVIOUS
    <2>1. Types /\ Numbered /\ Fresh /\ \A j \in Runs : Shape(j) /\ Batch(j)
      BY DEF BInv, IInv, Batches
    <2>2. ASSUME NEW j \in Runs, NEW c \in run[j].pending
          PROVE  c.index < ChunkCount[c.row][c.version]
      <3>1. run[j].pc \in Scanning
        BY <2>1, <2>2 DEF Shape
      <3> QED
        BY <2>1, <2>2, <3>1 DEF Batch, WholeIn
    <2> QED
      BY <2>1, <2>2 DEF TypeOK, Numbered, Fresh
  <1> QED
    BY <1>1, BInvInit, BInvNext, PTL DEF Spec

\* A batch has no chunk twice as long as nobody edits the table, whatever its
\* size, the pages it spans and the other runs, so that upsert_chunks is
\* accepted.
THEOREM BatchCorrect == Spec => []NoDuplicateBatch
  <1>1. BInv => NoDuplicateBatch
    BY DEF BInv, Batches, Batch, PassIn, NoDuplicateBatch
  <1> QED
    BY <1>1, BInvInit, BInvNext, PTL DEF Spec

\* The chunks of a record in the store are all of one version and all there,
\* edits and overlapping runs included: a row's chunks are pending together and
\* flushed together.
THEOREM RecordsCorrect == Spec => []RecordsWhole
  <1>1. BInv => RecordsWhole
    BY DEF BInv
  <1> QED
    BY <1>1, BInvInit, BInvNext, PTL DEF Spec

\* A run writes a cursor above the one it read; with nothing exposed it is the
\* latest stamp of that table, however many tables the run goes through.
THEOREM CursorCorrect == Spec => CursorAdvances
  <1> DEFINE Latest(j) ==
                LET t == run[j].table
                IN /\ t \in Watermarked
                   /\ watermark'[t] > run[j].since
                   /\ exposed[t] = {} =>
                        /\ \E r \in Rows : source[t][r].stamp = watermark'[t]
                        /\ \A r \in Rows : source[t][r].stamp <= watermark'[t]
             Advance(j) ==
                run[j].pc = "mark" /\ run'[j].pc = "next"
                /\ watermark'[run[j].table] # watermark[run[j].table]
                    => Latest(j)
  <1>1. ASSUME BInv, [Next]_vars, NEW j \in Runs, run[j].pc = "mark",
               run'[j].pc = "next",
               watermark'[run[j].table] # watermark[run[j].table]
        PROVE  Latest(j)
    <2>1. run \in [Runs -> RunState] /\ watermark \in [Tables -> 0..MaxStamp]
      BY <1>1 DEF BInv, IInv, Types
    <2>2. ASSUME SetWatermark(j)
          PROVE  Latest(j)
      <3> DEFINE t == run[j].table
                 max == run[j].max
      <3>1. /\ t \in Tables /\ max \in 0..MaxStamp
            /\ run[j].since \in 0..MaxStamp
            /\ StampsIn(t, run[j].since, run[j].page, max)
            /\ exposed[t] = {} => SeenIn(source[t], run[j].since, run[j].offset,
                                         TRUE, {}, max)
        BY <1>1, <2>1 DEF BInv, IInv, Types, RunState, Batches, Batch, Scanning,
                          Shape
      <3>2. max # 0 /\ watermark'[t] = max
        BY <1>1, <2>1, <2>2, <3>1 DEF SetWatermark
      <3>3. t \in Watermarked /\ max > run[j].since
        BY <3>1, <3>2 DEF StampsIn
      <3>4. ASSUME exposed[t] = {}, NEW r \in Rows
            PROVE  source[t][r].stamp <= max
        <4>1. /\ source[t][r] \in RowValues(t)
              /\ source[t][r].stamp \in 0..MaxStamp
          BY <1>1, <3>1 DEF BInv, IInv, Types
        <4>2. CASE r \in Matching(source[t], run[j].since)
          BY <3>1, <3>4, <4>1, <4>2, BoundsAssumption DEF SeenIn
        <4>3. CASE r \notin Matching(source[t], run[j].since)
          <5>1. ~Live(source[t][r]) \/ source[t][r].stamp <= run[j].since
            BY <3>1, <4>1, <4>3, BoundsAssumption DEF Matching, Qualifies
          <5>2. ~Live(source[t][r]) => source[t][r].stamp = 0
            BY <4>1, BoundsAssumption DEF Live, RowValues, Absent
          <5> QED
            BY <3>1, <3>3, <4>1, <5>1, <5>2, BoundsAssumption
        <4> QED
          BY <4>2, <4>3
      <3>5. exposed[t] = {} => \E r \in Rows : source[t][r].stamp = max
        BY <3>1, <3>2 DEF SeenIn
      <3> QED
        BY <3>2, <3>3, <3>4, <3>5
    <2> HIDE DEF Latest
    <2>3. ASSUME NEW i \in Runs, i # j,
                 run' = [run EXCEPT ![i] = run'[i]]
          PROVE  FALSE
      BY <1>1, <2>1, <2>3
    <2>4. ASSUME run' = run
          PROVE  FALSE
      BY <1>1, <2>4
    <2>5. ASSUME NEW i \in Runs, RunStep(i), ~SetWatermark(j)
          PROVE  FALSE
      <3>1. run' = [run EXCEPT ![i] = run'[i]]
        BY <2>1, <2>5 DEF RunStep, MarkRunning, ReadWatermark, FetchPage, ProcessRow,
                          Flush, SetWatermark, Finish, Raise, MarkFailed
      <3>2. i = j
        BY <2>3, <3>1
      <3>3. Raise(j)
        BY <1>1, <2>5, <3>2 DEF RunStep, MarkRunning, ReadWatermark, FetchPage,
                                ProcessRow, Flush, Finish, MarkFailed
      <3>4. run'[j].pc \in {"ended", "failing"}
        BY <2>1, <3>3 DEF Raise, At
      <3> QED
        BY <1>1, <3>4
    <2>6. ASSUME NEW i \in Runs, NEW requested, StartIngestion(i, requested)
          PROVE  FALSE
      <3>1. run[i].pc = "new" /\ run' = [run EXCEPT ![i] = run'[i]]
        BY <2>1, <2>6 DEF StartIngestion
      <3> QED
        BY <1>1, <2>3, <3>1
    <2>7. ASSUME NEW i \in Runs, StartCli(i) \/ MarkFailedRaises(i) \/ Crash(i)
          PROVE  FALSE
      <3>1. run' = [run EXCEPT ![i] = run'[i]]
        BY <2>1, <2>7 DEF StartCli, MarkFailedRaises, Crash
      <3>2. i = j
        BY <2>3, <3>1
      <3>3. Crash(j)
        BY <1>1, <2>7, <3>2 DEF StartCli, MarkFailedRaises
      <3>4. run'[j].pc = "crashed"
        BY <2>1, <3>3 DEF Crash, At
      <3> QED
        BY <1>1, <3>4
    <2>8. ASSUME NEW k \in Resets, ResetStep(k)
          PROVE  run' = run
      BY <2>8 DEF ResetStep, ResetDeleteChunks, ResetNothing,
                  ResetDeleteWatermarks, ResetAborts
    <2>9. ASSUME NEW t \in Tables, NEW r \in Rows, NEW new \in RowValues(t),
                 EditSource(t, r, new)
          PROVE  run' = run
      BY <2>9 DEF EditSource
    <2>10. ChatEnsuresTable \/ UNCHANGED vars => run' = run
      BY DEF ChatEnsuresTable, vars
    <2> QED
      BY <1>1, <2>2, <2>4, <2>5, <2>6, <2>7, <2>8, <2>9, <2>10, Zenon DEF Next
  <1>2. BInv /\ [Next]_vars => [\A j \in Runs : Advance(j)]_vars
    BY <1>1
  <1>3. Spec => [][\A j \in Runs : Advance(j)]_vars
    <2> HIDE DEF Advance
    <2> QED
      BY <1>2, BInvInit, BInvNext, PTL DEF Spec
  <1> QED
    BY <1>3 DEF CursorAdvances

-----------------------------------------------------------------------------
(* How long a run lasts and how much it holds, whatever is edited under it. *)

\* A page is one page long, a batch short of batch_size by the time the next
\* row is taken, and no page starts behind the last row there may be.
Fits(me) ==
    /\ me.offset <= Cardinality(Rows)
    /\ IsFiniteSet(me.page) /\ Cardinality(me.page) <= BatchSize
    /\ IsFiniteSet(me.pending)
    /\ Cardinality(me.pending) <= BatchSize - 1 + MaxChunks
    /\ me.pc # "flush" => Cardinality(me.pending) < BatchSize

Bounded == \A j \in Runs : Fits(run[j])

\* How far a run is from its end.
Stage(pc) ==
    IF pc = "new" THEN 4
    ELSE IF pc = "created" THEN 3
    ELSE IF pc \in Scanning \cup {"next"} THEN 2
    ELSE IF pc = "failing" THEN 1
    ELSE 0

\* A table to begin, rows not yet asked for, rows on the page, a batch in hand.
Ahead(me) ==
    <<IF me.pc = "next" THEN 1 ELSE 0,
      IF me.eof THEN 0 ELSE Cardinality(Rows) + 1 - me.offset,
      Cardinality(me.page),
      IF me.pc = "flush" THEN 1 ELSE 0>>

Less(a, b) == \E i \in 1..4 : a[i] < b[i] /\ \A k \in 1..(i - 1) : a[k] = b[k]

Closer(new, old) ==
    \/ Stage(new.pc) < Stage(old.pc)
    \/ /\ Stage(new.pc) = Stage(old.pc)
       /\ \/ new.todo \subseteq old.todo /\ new.todo # old.todo
          \/ new.todo = old.todo /\ Less(Ahead(new), Ahead(old))

LEMMA ImageBound ==
    ASSUME NEW S, NEW T, IsFiniteSet(S), NEW f \in [S -> T],
           \A y \in T : \E x \in S : f[x] = y
    PROVE  /\ IsFiniteSet(T) /\ Cardinality(T) \in Nat
           /\ Cardinality(T) <= Cardinality(S)
  <1>1. f \in Surjection(S, T)
    BY DEF Surjection
  <1> QED
    BY <1>1, FS_Surjection, FS_CardinalityType

\* A record adds at most as many chunks as a text can have.
LEMMA ChunksFew ==
    ASSUME NEW p \in PageRow, NEW at \in Nat
    PROVE  /\ IsFiniteSet(ChunksOf(p, at)) /\ Cardinality(ChunksOf(p, at)) \in Nat
           /\ Cardinality(ChunksOf(p, at)) <= MaxChunks
  <1> DEFINE I == {i \in Index : i < ChunkCount[p.row][p.version]}
             f == [i \in I |-> [row |-> p.row, index |-> i,
                                version |-> p.version, at |-> at]]
             C == ChunksOf(p, at)
  <1>1. IsFiniteSet(Index) /\ Cardinality(Index) = MaxChunks
    <2>1. /\ MaxChunks \in Nat /\ MaxChunks - 1 \in Int /\ 0 \in Int
          /\ (0 > MaxChunks - 1 => MaxChunks = 0)
          /\ MaxChunks - 1 - 0 + 1 = MaxChunks
      BY BoundsAssumption
    <2> DEFINE b == MaxChunks - 1
    <2>2. /\ IsFiniteSet(0..b)
          /\ Cardinality(0..b) = IF 0 > b THEN 0 ELSE b - 0 + 1
      <3> HIDE DEF b
      <3>1. b \in Int
        BY <2>1 DEF b
      <3> QED
        BY <3>1, <2>1, FS_Interval
    <2> QED
      BY <2>1, <2>2 DEF Index
  <1>2. IsFiniteSet(I) /\ Cardinality(I) <= MaxChunks /\ Cardinality(I) \in Nat
    <2>1. I \in SUBSET Index
      OBVIOUS
    <2> HIDE DEF I
    <2> QED
      BY <1>1, <2>1, FS_Subset, FS_CardinalityType
  <1>3. f \in [I -> C] /\ \A y \in C : \E x \in I : f[x] = y
    BY DEF ChunksOf
  <1> HIDE DEF I, f, C
  <1>4. IsFiniteSet(C) /\ Cardinality(C) \in Nat /\ Cardinality(C) <= Cardinality(I)
    BY <1>2, <1>3, ImageBound
  <1> QED
    BY <1>2, <1>4, BoundsAssumption DEF C

\* A page is not longer than batch_size, and a full page does not end behind
\* the rows there are.
LEMMA PageFits ==
    ASSUME NEW rows, NEW since, NEW offset \in Nat
    PROVE  LET P == PageOf(rows, since, offset)
           IN  /\ IsFiniteSet(P) /\ Cardinality(P) \in Nat
               /\ Cardinality(P) <= BatchSize
               /\ ~(Cardinality(P) < BatchSize) =>
                        offset + BatchSize <= Cardinality(Rows)
  <1> DEFINE S == Matching(rows, since)
             P == PageOf(rows, since, offset)
             end == offset + BatchSize
             W == (offset + 1)..end
             f == [q \in P |-> Rank(S, q)]
  <1>1. S \in SUBSET Rows /\ P \in SUBSET S
    BY DEF Matching, PageOf
  <1>2. end \in Nat /\ BatchSize \in Nat /\ offset <= end /\ end - offset = BatchSize
        /\ 0 < BatchSize /\ offset + 1 \in Int /\ end \in Int
    BY BatchSizeAssumption
  <1>3. \A q \in P : offset < Rank(S, q) /\ Rank(S, q) <= end
    BY DEF PageOf
  <1>4. IsFiniteSet(P) /\ Cardinality(P) \in Nat /\ Cardinality(P) <= BatchSize
    <2> HIDE DEF S, P, end
    <2> QED
      BY <1>1, <1>2, <1>3, RankWindow
  <1>5. ASSUME ~(Cardinality(P) < BatchSize)
        PROVE  end <= Cardinality(Rows)
    <2>1. Cardinality(P) = BatchSize
      <3> HIDE DEF P
      <3> QED
        BY <1>2, <1>4, <1>5
    <2>2. \A q \in P : Rank(S, q) \in Nat /\ Rank(S, q) \in W
      <3>1. \A q \in P : Rank(S, q) \in Nat
        <4> HIDE DEF S, P
        <4> QED
          BY <1>1, RankType
      <3> HIDE DEF S, P, end
      <3> QED
        BY <1>2, <1>3, <3>1
    <2>3. f \in Injection(P, W)
      <3>1. ASSUME NEW q \in P, NEW r \in P, f[q] = f[r]
            PROVE  q = r
        <4>1. q \in Nat /\ r \in Nat /\ q \in S /\ r \in S
          BY <1>1, RowsAssumption
        <4>2. ~(q < r) /\ ~(r < q)
          <5> HIDE DEF S, P
          <5> QED
            BY <1>1, <2>2, <3>1, <4>1, RankStrict
        <4> QED
          BY <4>1, <4>2
      <3>2. f \in [P -> W]
        BY <2>2
      <3> HIDE DEF f
      <3>3. IsInjective(f)
        BY <3>1, <3>2 DEF IsInjective
      <3> QED
        BY <3>2, <3>3 DEF Injection
    <2>4. IsFiniteSet(W) /\ Cardinality(W) = BatchSize
      <3> DEFINE a == offset + 1
      <3>1. a \in Int /\ end \in Int /\ ~(a > end) /\ end - a + 1 = BatchSize
        BY <1>2
      <3>2. /\ IsFiniteSet(a..end)
            /\ Cardinality(a..end) = IF a > end THEN 0 ELSE end - a + 1
        <4> HIDE DEF a, end
        <4> QED
          BY <3>1, FS_Interval
      <3> QED
        BY <3>1, <3>2
    <2>5. f \in Surjection(P, W)
      <3> HIDE DEF f, P, W
      <3> QED
        BY <2>1, <2>3, <2>4, FS_Injection
    <2>6. end \in W
      BY <1>2
    <2>7. PICK q \in P : f[q] = end
      <3> HIDE DEF f, P, W, end
      <3> QED
        BY <2>5, <2>6 DEF Surjection
    <2>8. Rank(S, q) = end
      BY <2>7
    <2>9. {x \in S : x <= q} \in SUBSET Rows
      BY <1>1
    <2>10. Cardinality({x \in S : x <= q}) <= Cardinality(Rows)
      BY <2>9, RowsAssumption, FS_Subset
    <2> QED
      BY <2>8, <2>10 DEF Rank
  <1> QED
    BY <1>4, <1>5

LEMMA RowsCount == Cardinality(Rows) \in Nat
  BY RowsAssumption, FS_CardinalityType

LEMMA AheadOf ==
    ASSUME NEW new, NEW old
    PROVE  /\ Ahead(new)[1] = (IF new.pc = "next" THEN 1 ELSE 0)
           /\ Ahead(new)[2] =
                (IF new.eof THEN 0 ELSE Cardinality(Rows) + 1 - new.offset)
           /\ Ahead(new)[3] = Cardinality(new.page)
           /\ Ahead(new)[4] = (IF new.pc = "flush" THEN 1 ELSE 0)
  BY DEF Ahead

\* Four ways to come closer within a table.
LEMMA LessIntro ==
    ASSUME NEW a, NEW b,
           \/ a[1] < b[1]
           \/ a[1] = b[1] /\ a[2] < b[2]
           \/ a[1] = b[1] /\ a[2] = b[2] /\ a[3] < b[3]
           \/ a[1] = b[1] /\ a[2] = b[2] /\ a[3] = b[3] /\ a[4] < b[4]
    PROVE  Less(a, b)
  <1>1. CASE a[1] < b[1]
    <2>1. 1 \in 1..4 /\ \A k \in 1..(1 - 1) : a[k] = b[k]
      OBVIOUS
    <2> QED
      BY <1>1, <2>1 DEF Less
  <1>2. CASE a[1] = b[1] /\ a[2] < b[2]
    <2>1. 2 \in 1..4 /\ \A k \in 1..(2 - 1) : k = 1
      OBVIOUS
    <2> QED
      BY <1>2, <2>1 DEF Less
  <1>3. CASE a[1] = b[1] /\ a[2] = b[2] /\ a[3] < b[3]
    <2>1. 3 \in 1..4 /\ \A k \in 1..(3 - 1) : k = 1 \/ k = 2
      OBVIOUS
    <2> QED
      BY <1>3, <2>1 DEF Less
  <1>4. CASE a[1] = b[1] /\ a[2] = b[2] /\ a[3] = b[3] /\ a[4] < b[4]
    <2>1. 4 \in 1..4 /\ \A k \in 1..(4 - 1) : k = 1 \/ k = 2 \/ k = 3
      OBVIOUS
    <2> QED
      BY <1>4, <2>1 DEF Less
  <1> QED
    BY <1>1, <1>2, <1>3, <1>4

\* Outside _ingest_table a run holds nothing.
LEMMA AtFits ==
    ASSUME NEW pc, NEW todo, pc # "flush"
    PROVE  Fits(At(pc, todo))
  <1>1. IsFiniteSet({}) /\ Cardinality({}) = 0
    BY FS_EmptySet
  <1>2. /\ At(pc, todo).offset = 0 /\ At(pc, todo).page = {}
        /\ At(pc, todo).pending = {} /\ At(pc, todo).pc = pc
    BY DEF At
  <1> QED
    BY <1>1, <1>2, RowsCount, BatchSizeAssumption, BoundsAssumption DEF Fits

LEMMA FetchPageDescends ==
    ASSUME IInv, Bounded, NEW j \in Runs, FetchPage(j)
    PROVE  Fits(run'[j]) /\ Closer(run'[j], run[j])
  <1> DEFINE me == run[j]
             t == me.table
             rows == source[t]
             found == PageOf(rows, me.since, me.offset)
             page == {[row |-> r, version |-> rows[r].version,
                       stamp |-> rows[r].stamp] : r \in found}
             eof == Cardinality(found) < BatchSize
             offset == IF eof THEN me.offset ELSE me.offset + BatchSize
             pc == Resume(page, me.pending, eof)
             new == [me EXCEPT !.pc = pc,
                               !.page = page, !.eof = eof,
                               !.offset = offset]
  <1>1. /\ me.pc = "scan"
        /\ run' = [run EXCEPT ![j] = new]
    BY Zenon DEF FetchPage
  <1>2. /\ run \in [Runs -> RunState] /\ me \in RunState
        /\ me.offset \in Nat /\ me.eof = FALSE /\ eof \in BOOLEAN
    BY <1>1 DEF IInv, Types, RunState, Shape
  <1>3. /\ IsFiniteSet(found) /\ Cardinality(found) \in Nat
        /\ Cardinality(found) <= BatchSize
        /\ ~eof => me.offset + BatchSize <= Cardinality(Rows)
    BY <1>2, PageFits
  <1>4. /\ IsFiniteSet(page) /\ Cardinality(page) \in Nat
        /\ Cardinality(page) <= Cardinality(found)
    <2> DEFINE f == [r \in found |-> [row |-> r, version |-> rows[r].version,
                                      stamp |-> rows[r].stamp]]
    <2>1. f \in [found -> page] /\ \A y \in page : \E r \in found : f[r] = y
      OBVIOUS
    <2> HIDE DEF f, page, found
    <2> QED
      BY <1>3, <2>1, ImageBound
  <1>5. /\ new.pc = pc /\ new.page = page /\ new.pending = me.pending
        /\ new.eof = eof /\ new.offset = offset /\ new.todo = me.todo
    <2> HIDE DEF me, page, eof, offset, pc
    <2> QED
      BY <1>2 DEF RunState
  <1>6. run'[j] = new
    BY <1>1, <1>2
  <1>7. pc \in Scanning
    BY ResumeType
  <1>8. Fits(me) /\ Cardinality(Rows) \in Nat /\ BatchSize \in Nat /\ 0 < BatchSize
    BY RowsCount, BatchSizeAssumption DEF Bounded
  <1> HIDE DEF new, page, found, eof, pc, me
  <1>9. Fits(new)
    BY <1>1, <1>2, <1>3, <1>4, <1>5, <1>8, BoundsAssumption DEF Fits
  <1>10. Closer(new, me)
    <2>1. Ahead(new)[1] = 0 /\ Ahead(me)[1] = 0
      BY <1>1, <1>5, <1>7, AheadOf DEF Scanning
    <2>2. Ahead(me)[2] = Cardinality(Rows) + 1 - me.offset
      BY <1>2, AheadOf
    <2>3. Ahead(new)[2] = IF eof THEN 0 ELSE Cardinality(Rows) + 1 - offset
      BY <1>5, AheadOf
    <2>4. me.offset <= Cardinality(Rows)
      BY <1>8 DEF Fits
    <2>5. Ahead(new)[2] < Ahead(me)[2]
      BY <1>2, <1>8, <2>2, <2>3, <2>4
    <2>6. Less(Ahead(new), Ahead(me))
      BY <2>1, <2>5, LessIntro
    <2>7. Stage(new.pc) = 2 /\ Stage(me.pc) = 2
      BY <1>1, <1>5, <1>7 DEF Stage, Scanning
    <2> QED
      BY <1>5, <2>6, <2>7 DEF Closer
  <1> QED
    BY <1>6, <1>9, <1>10 DEF me

LEMMA ProcessRowDescends ==
    ASSUME IInv, Bounded, NEW j \in Runs, ProcessRow(j)
    PROVE  Fits(run'[j]) /\ Closer(run'[j], run[j])
  <1> DEFINE me == run[j]
  <1>1. PICK p \in me.page :
          /\ \A q \in me.page : p.row <= q.row
          /\ run' = [run EXCEPT ![j] =
              [me EXCEPT
                 !.pc = IF Cardinality(me.pending \cup ChunksOf(p, me.offset))
                                >= BatchSize
                        THEN "flush"
                        ELSE Resume(me.page \ {p},
                                    me.pending \cup ChunksOf(p, me.offset),
                                    me.eof),
                 !.page = me.page \ {p},
                 !.pending = me.pending \cup ChunksOf(p, me.offset),
                 !.max = IF p.stamp > @ THEN p.stamp ELSE @]]
    BY Zenon DEF ProcessRow
  <1> DEFINE page == me.page \ {p}
             chunks == ChunksOf(p, me.offset)
             pending == me.pending \cup chunks
             pc == IF Cardinality(pending) >= BatchSize THEN "flush"
                   ELSE Resume(page, pending, me.eof)
             new == [me EXCEPT !.pc = pc, !.page = page, !.pending = pending,
                               !.max = IF p.stamp > @ THEN p.stamp ELSE @]
  <1>2. me.pc = "rows"
    BY DEF ProcessRow
  <1>3. /\ run \in [Runs -> RunState] /\ me \in RunState /\ p \in PageRow
        /\ me.offset \in Nat /\ me.eof \in BOOLEAN
    BY DEF IInv, Types, RunState
  <1>4. Fits(me) /\ Cardinality(Rows) \in Nat /\ BatchSize \in Nat /\ MaxChunks \in Nat
    BY RowsCount, BatchSizeAssumption, BoundsAssumption DEF Bounded
  <1>5. /\ new.page = page /\ new.pending = pending /\ new.pc = pc
        /\ new.eof = me.eof /\ new.offset = me.offset /\ new.todo = me.todo
    <2> HIDE DEF me, page, pending, pc
    <2> QED
      BY <1>3 DEF RunState
  <1>6. run'[j] = new
    BY <1>1, <1>3
  <1>7. pc \in Scanning
    BY ResumeType DEF Scanning
  <1>8. /\ IsFiniteSet(page) /\ Cardinality(page) \in Nat
        /\ Cardinality(page) = Cardinality(me.page) - 1
        /\ Cardinality(me.page) \in Nat
    BY <1>4, FS_RemoveElement, FS_CardinalityType DEF Fits
  <1>9. /\ IsFiniteSet(pending) /\ Cardinality(pending) \in Nat
        /\ Cardinality(pending) <= BatchSize - 1 + MaxChunks
    <2>1. /\ IsFiniteSet(chunks) /\ Cardinality(chunks) \in Nat
          /\ Cardinality(chunks) <= MaxChunks
      BY <1>3, ChunksFew
    <2>2. /\ IsFiniteSet(me.pending) /\ Cardinality(me.pending) \in Nat
          /\ Cardinality(me.pending) < BatchSize
      BY <1>2, <1>4, FS_CardinalityType DEF Fits
    <2> HIDE DEF chunks, me
    <2>3. /\ IsFiniteSet(pending) /\ Cardinality(pending) \in Nat
          /\ Cardinality(pending) <= Cardinality(me.pending) + Cardinality(chunks)
      BY <2>1, <2>2, UnionBound, FS_CardinalityType
    <2> QED
      BY <1>4, <2>1, <2>2, <2>3
  <1>10. pc # "flush" => Cardinality(pending) < BatchSize
    <2> HIDE DEF pending, page
    <2> QED
      BY <1>4, <1>9
  <1> HIDE DEF new, page, pending, pc, me
  <1>11. Fits(new)
    BY <1>4, <1>5, <1>8, <1>9, <1>10 DEF Fits
  <1>12. Closer(new, me)
    <2>1. Ahead(new)[1] = 0 /\ Ahead(me)[1] = 0
      BY <1>2, <1>5, <1>7, AheadOf DEF Scanning
    <2>2. Ahead(new)[2] = Ahead(me)[2]
      BY <1>5, AheadOf
    <2>3. Ahead(new)[3] = Cardinality(page) /\ Ahead(me)[3] = Cardinality(me.page)
      BY <1>5, AheadOf
    <2>4. Less(Ahead(new), Ahead(me))
      BY <1>8, <2>1, <2>2, <2>3, LessIntro
    <2>5. Stage(new.pc) = 2 /\ Stage(me.pc) = 2
      BY <1>2, <1>5, <1>7 DEF Stage, Scanning
    <2> QED
      BY <1>5, <2>4, <2>5 DEF Closer
  <1> QED
    BY <1>6, <1>11, <1>12 DEF me

LEMMA FlushDescends ==
    ASSUME IInv, Bounded, NEW j \in Runs, Flush(j)
    PROVE  Fits(run'[j]) /\ Closer(run'[j], run[j])
  <1> DEFINE me == run[j]
             pc == Resume(me.page, {}, me.eof)
             new == [me EXCEPT !.pc = pc, !.pending = {}]
  <1>1. me.pc = "flush" /\ run' = [run EXCEPT ![j] = new]
    BY DEF Flush
  <1>2. run \in [Runs -> RunState] /\ me \in RunState /\ me.eof \in BOOLEAN
    BY DEF IInv, Types, RunState
  <1>3. /\ new.page = me.page /\ new.pending = {} /\ new.pc = pc
        /\ new.eof = me.eof /\ new.offset = me.offset /\ new.todo = me.todo
    <2> HIDE DEF me, pc
    <2> QED
      BY <1>2 DEF RunState
  <1>4. run'[j] = new
    BY <1>1, <1>2
  <1>5. pc \in Scanning /\ pc # "flush"
    BY ResumeType DEF Resume
  <1>6. Fits(me)
    BY DEF Bounded
  <1> HIDE DEF new, pc, me
  <1>7. Fits(new)
    <2>1. IsFiniteSet({}) /\ Cardinality({}) = 0
      BY FS_EmptySet
    <2> QED
      BY <1>3, <1>6, <2>1, BatchSizeAssumption, BoundsAssumption DEF Fits
  <1>8. Closer(new, me)
    <2>1. Ahead(new)[1] = 0 /\ Ahead(me)[1] = 0
      BY <1>1, <1>3, <1>5, AheadOf DEF Scanning
    <2>2. Ahead(new)[2] = Ahead(me)[2] /\ Ahead(new)[3] = Ahead(me)[3]
      BY <1>3, AheadOf
    <2>3. Ahead(new)[4] = 0 /\ Ahead(me)[4] = 1
      BY <1>1, <1>3, <1>5, AheadOf
    <2>4. Less(Ahead(new), Ahead(me))
      BY <2>1, <2>2, <2>3, LessIntro
    <2>5. Stage(new.pc) = 2 /\ Stage(me.pc) = 2
      BY <1>1, <1>3, <1>5 DEF Stage, Scanning
    <2> QED
      BY <1>3, <2>4, <2>5 DEF Closer
  <1> QED
    BY <1>4, <1>7, <1>8 DEF me

LEMMA ReadWatermarkDescends ==
    ASSUME IInv, Bounded, NEW j \in Runs, NEW t \in Tables, ReadWatermark(j, t)
    PROVE  Fits(run'[j]) /\ Closer(run'[j], run[j])
  <1> DEFINE me == run[j]
             new == [me EXCEPT !.pc = "scan", !.table = t,
                               !.since = watermark[t]]
  <1>1. me.pc = "next" /\ run' = [run EXCEPT ![j] = new]
    BY DEF ReadWatermark, IInv, Types
  <1>2. run \in [Runs -> RunState] /\ me \in RunState
    BY DEF IInv, Types
  <1>3. /\ new.page = me.page /\ new.pending = me.pending /\ new.pc = "scan"
        /\ new.eof = me.eof /\ new.offset = me.offset /\ new.todo = me.todo
    <2> HIDE DEF me
    <2> QED
      BY <1>2 DEF RunState
  <1>4. run'[j] = new
    BY <1>1, <1>2
  <1>5. Fits(me)
    BY DEF Bounded
  <1> HIDE DEF new, me
  <1>6. Fits(new)
    BY <1>1, <1>3, <1>5 DEF Fits
  <1>7. Closer(new, me)
    <2>1. Ahead(new)[1] = 0 /\ Ahead(me)[1] = 1
      BY <1>1, <1>3, AheadOf
    <2>2. Less(Ahead(new), Ahead(me))
      BY <2>1, LessIntro
    <2>3. Stage(new.pc) = 2 /\ Stage(me.pc) = 2
      BY <1>1, <1>3 DEF Stage, Scanning
    <2> QED
      BY <1>3, <2>2, <2>3 DEF Closer
  <1> QED
    BY <1>4, <1>6, <1>7 DEF me

\* Outside the loop over rows.
LEMMA OuterDescends ==
    ASSUME IInv, Bounded, NEW j \in Runs,
           \/ \E requested \in SUBSET Tables : StartIngestion(j, requested)
           \/ StartCli(j) \/ MarkRunning(j) \/ SetWatermark(j) \/ Finish(j)
           \/ Raise(j) \/ MarkFailed(j) \/ MarkFailedRaises(j) \/ Crash(j)
    PROVE  Fits(run'[j]) /\ Closer(run'[j], run[j])
  <1>1. run \in [Runs -> RunState] /\ run[j] \in RunState /\ Fits(run[j])
    BY DEF IInv, Types, Bounded
  <1>2. ASSUME NEW pc, run' = [run EXCEPT ![j].pc = pc], pc # "flush",
               run[j].pc # "flush", Stage(pc) < Stage(run[j].pc)
        PROVE  Fits(run'[j]) /\ Closer(run'[j], run[j])
    <2>1. /\ run'[j].pc = pc /\ run'[j].offset = run[j].offset
          /\ run'[j].page = run[j].page /\ run'[j].pending = run[j].pending
      BY <1>1, <1>2 DEF RunState
    <2> QED
      BY <1>1, <1>2, <2>1 DEF Fits, Closer
  <1>3. ASSUME NEW pc, NEW todo, run' = [run EXCEPT ![j] = At(pc, todo)],
               pc # "flush", Stage(pc) < Stage(run[j].pc)
        PROVE  Fits(run'[j]) /\ Closer(run'[j], run[j])
    <2>1. run'[j] = At(pc, todo) /\ At(pc, todo).pc = pc
      BY <1>1, <1>3 DEF At
    <2> QED
      BY <1>3, <2>1, AtFits DEF Closer
  <1>4. ASSUME NEW requested \in SUBSET Tables, StartIngestion(j, requested)
        PROVE  Fits(run'[j]) /\ Closer(run'[j], run[j])
    <2>1. Stage("created") = 3 /\ Stage("new") = 4
      BY DEF Stage
    <2> QED
      BY <1>3, <1>4, <2>1 DEF StartIngestion
  <1>5. CASE StartCli(j)
    <2>1. run[j].pc = "new" /\ run' = [run EXCEPT ![j] = At("next", Tables)]
      BY <1>5 DEF StartCli
    <2>2. Stage("next") < Stage(run[j].pc)
      BY <2>1 DEF Stage, Scanning
    <2> QED
      BY <1>3, <2>1, <2>2
  <1>6. CASE MarkRunning(j)
    <2>1. run[j].pc = "created" /\ run' = [run EXCEPT ![j].pc = "next"]
      BY <1>6 DEF MarkRunning
    <2>2. Stage("next") < Stage(run[j].pc)
      BY <2>1 DEF Stage, Scanning
    <2> QED
      BY <1>2, <2>1, <2>2
  <1>7. CASE Finish(j)
    <2>1. run[j].pc = "next" /\ run' = [run EXCEPT ![j].pc = "ended"]
      BY <1>7 DEF Finish
    <2>2. Stage("ended") < Stage(run[j].pc)
      BY <2>1 DEF Stage, Scanning
    <2> QED
      BY <1>2, <2>1, <2>2
  <1>8. CASE MarkFailed(j)
    <2>1. run[j].pc = "failing" /\ run' = [run EXCEPT ![j].pc = "ended"]
      BY <1>8 DEF MarkFailed
    <2>2. Stage("ended") < Stage(run[j].pc)
      BY <2>1 DEF Stage, Scanning
    <2> QED
      BY <1>2, <2>1, <2>2
  <1>9. CASE MarkFailedRaises(j)
    <2>1. run[j].pc = "failing" /\ run' = [run EXCEPT ![j].pc = "escaped"]
      BY <1>9 DEF MarkFailedRaises
    <2>2. Stage("escaped") < Stage(run[j].pc)
      BY <2>1 DEF Stage, Scanning
    <2> QED
      BY <1>2, <2>1, <2>2
  <1>10. CASE Raise(j)
    <2>1. \A pc \in Scanning \cup {"created", "next"} : Stage(pc) >= 2
      BY DEF Stage, Scanning
    <2>2. Stage("failing") = 1 /\ Stage("ended") = 0
      BY DEF Stage, Scanning
    <2>3. \A pc \in Scanning \cup {"created", "next"} :
            Stage("failing") < Stage(pc) /\ Stage("ended") < Stage(pc)
      BY DEF Stage, Scanning
    <2> QED
      BY <1>3, <1>10, <2>3 DEF Raise
  <1>11. CASE Crash(j)
    <2>1. \A pc \in Scanning \cup {"created", "next", "failing"} :
            Stage("crashed") < Stage(pc)
      BY DEF Stage, Scanning
    <2> QED
      BY <1>3, <1>11, <2>1 DEF Crash
  <1>12. CASE SetWatermark(j)
    <2> DEFINE todo == run[j].todo \ {run[j].table}
    <2>1. run' = [run EXCEPT ![j] = At("next", todo)] /\ run[j].pc = "mark"
      BY <1>12 DEF SetWatermark
    <2>2. run[j].table \in run[j].todo
      BY <2>1 DEF IInv, Types, Scanning
    <2>3. run'[j] = At("next", todo)
      BY <1>1, <2>1
    <2>4. run'[j].pc = "next" /\ run'[j].todo = todo
      BY <2>3 DEF At
    <2>5. Stage("next") = 2 /\ Stage("mark") = 2
      BY DEF Stage, Scanning
    <2>6. Closer(run'[j], run[j])
      BY <2>1, <2>2, <2>4, <2>5 DEF Closer
    <2> QED
      BY <2>3, <2>6, AtFits
  <1> QED
    BY <1>4, <1>5, <1>6, <1>7, <1>8, <1>9, <1>10, <1>11, <1>12

LEMMA DescendsNext ==
    ASSUME IInv, Bounded, [Next]_vars, NEW i \in Runs
    PROVE  run'[i] = run[i] \/ (Fits(run'[i]) /\ Closer(run'[i], run[i]))
  <1>1. run \in [Runs -> RunState]
    BY DEF IInv, Types
  <1>2. ASSUME NEW j \in Runs,
               \/ \E requested \in SUBSET Tables : StartIngestion(j, requested)
               \/ StartCli(j) \/ RunStep(j) \/ MarkFailedRaises(j) \/ Crash(j)
        PROVE  /\ run' = [run EXCEPT ![j] = run'[j]]
               /\ Fits(run'[j]) /\ Closer(run'[j], run[j])
    <2>1. run' = [run EXCEPT ![j] = run'[j]]
      <3>1. CASE \E requested \in SUBSET Tables : StartIngestion(j, requested)
        BY <1>1, <3>1 DEF StartIngestion
      <3>2. CASE StartCli(j) \/ MarkFailedRaises(j) \/ Crash(j)
        BY <1>1, <3>2 DEF StartCli, MarkFailedRaises, Crash
      <3>3. CASE RunStep(j)
        BY <1>1, <3>3 DEF RunStep, MarkRunning, ReadWatermark, FetchPage,
                          ProcessRow, Flush, SetWatermark, Finish, Raise,
                          MarkFailed
      <3> QED
        BY <1>2, <3>1, <3>2, <3>3
    <2>2. Fits(run'[j]) /\ Closer(run'[j], run[j])
      BY <1>2, OuterDescends, ReadWatermarkDescends, FetchPageDescends,
         ProcessRowDescends, FlushDescends, Zenon DEF RunStep
    <2> QED
      BY <2>1, <2>2
  <1>3. ASSUME NEW j \in Runs, run' = [run EXCEPT ![j] = run'[j]],
               Fits(run'[j]) /\ Closer(run'[j], run[j])
        PROVE  run'[i] = run[i] \/ (Fits(run'[i]) /\ Closer(run'[i], run[i]))
    <2>1. i = j \/ run'[i] = run[i]
      BY <1>1, <1>3
    <2> QED
      BY <1>3, <2>1
  <1>4. ASSUME NEW k \in Resets, ResetStep(k)
        PROVE  run' = run
    BY <1>4 DEF ResetStep, ResetDeleteChunks, ResetNothing,
                ResetDeleteWatermarks, ResetAborts
  <1>5. ASSUME NEW t \in Tables, NEW r \in Rows, NEW new \in RowValues(t),
               EditSource(t, r, new)
        PROVE  run' = run
    BY <1>5 DEF EditSource
  <1>6. ChatEnsuresTable \/ UNCHANGED vars => run' = run
    BY DEF ChatEnsuresTable, vars
  <1> QED
    BY <1>2, <1>3, <1>4, <1>5, <1>6, Zenon DEF Next

LEMMA BoundedInit == Init => Bounded
  BY AtFits DEF Init, Bounded

LEMMA BoundedNext == IInv /\ Bounded /\ [Next]_vars => Bounded'
  BY DescendsNext DEF Bounded

\* iter_rows and _ingest_table: a run never holds more than a page of rows and
\* a batch with one record too many, and asks for no page behind the rows there
\* can be, however the source grows or shrinks while it reads.
THEOREM BoundsCorrect == Spec => []Bounded
  BY IInvInit, IInvNext, BoundedInit, BoundedNext, PTL DEF Spec

\* run_ingestion_for_tables ends: whatever a run does takes it closer to its
\* end, and nothing others do takes it back.  With its steps being taken, which
\* is what EveryJobFinishes assumes, a run reaches its end.
THEOREM RunsDescend ==
    Spec => [][\A j \in Runs : run'[j] # run[j] => Closer(run'[j], run[j])]_vars
  <1>1. IInv /\ Bounded /\ [Next]_vars =>
            [\A j \in Runs : run'[j] # run[j] => Closer(run'[j], run[j])]_vars
    BY DescendsNext
  <1> QED
    BY <1>1, IInvInit, IInvNext, BoundedInit, BoundedNext, PTL DEF Spec

-----------------------------------------------------------------------------
(* What is exposed, and by what.                                           *)

\* A table nobody edits and no reset names.
Untouched(t) == edits = 0 /\ \A k \in Resets : t \notin reset[k].scope

Unexposed == \A t \in Tables : Untouched(t) => exposed[t] = {}

IdleScopes == \A k \in Resets : reset[k].pc = "idle" => reset[k].scope = {}

LEMMA SettleEmpty ==
    ASSUME NEW cells, NEW mark, NEW busy
    PROVE  Settle({}, cells, mark, busy) = {}
  BY DEF Settle

\* A run that leaves a table exposes nothing.
LEMMA ExposedKept ==
    ASSUME Types, Unexposed, NEW j \in Runs, NEW marks,
           exposed' = ExposedAfter(j, marks),
           UNCHANGED <<edits, reset>>
    PROVE  Unexposed'
  <1> SUFFICES ASSUME NEW t \in Tables, Untouched(t)
               PROVE  exposed'[t] = {}
    BY DEF Unexposed, Untouched
  <1>1. exposed[t] = {} /\ exposed \in [Tables -> SUBSET Rows]
    BY DEF Unexposed, Types
  <1>2. CASE run[j].pc \in Scanning /\ run[j].table = t
    BY <1>1, <1>2, SettleEmpty DEF ExposedAfter
  <1>3. CASE ~(run[j].pc \in Scanning /\ run[j].table = t)
    BY <1>1, <1>3 DEF ExposedAfter
  <1> QED
    BY <1>2, <1>3

LEMMA UnexposedRun ==
    ASSUME Types, Unexposed, IdleScopes, NEW j \in Runs,
           \/ \E requested \in SUBSET Tables : StartIngestion(j, requested)
           \/ StartCli(j) \/ RunStep(j) \/ MarkFailedRaises(j) \/ Crash(j)
    PROVE  Unexposed' /\ IdleScopes'
  <1>1. CASE SetWatermark(j)
    BY <1>1, ExposedKept DEF SetWatermark, IdleScopes
  <1>2. CASE Raise(j)
    BY <1>2, ExposedKept DEF Raise, IdleScopes
  <1>3. CASE Crash(j)
    BY <1>3, ExposedKept DEF Crash, IdleScopes
  <1>4. CASE ~SetWatermark(j) /\ ~Raise(j) /\ ~Crash(j)
    <2>1. UNCHANGED <<exposed, edits, reset>>
      BY <1>4 DEF StartIngestion, StartCli, RunStep, MarkRunning,
                  ReadWatermark, FetchPage, ProcessRow, Flush, Finish,
                  MarkFailed, MarkFailedRaises
    <2> QED
      BY <2>1 DEF Unexposed, Untouched, IdleScopes
  <1> QED
    BY <1>1, <1>2, <1>3, <1>4

LEMMA UnexposedReset ==
    ASSUME Types, Unexposed, IdleScopes, NEW k \in Resets, ResetStep(k)
    PROVE  Unexposed' /\ IdleScopes'
  <1>1. /\ exposed \in [Tables -> SUBSET Rows]
        /\ reset \in [Resets -> [pc : {"idle", "deleting", "answered", "aborted"},
                                 scope : SUBSET Tables]]
    BY DEF Types
  <1>2. edits' = edits /\ \A i \in Resets \ {k} : reset'[i] = reset[i]
    BY <1>1 DEF ResetStep, ResetDeleteChunks, ResetNothing,
                ResetDeleteWatermarks, ResetAborts
  <1>3. reset'[k].pc # "idle"
    BY <1>1 DEF ResetStep, ResetDeleteChunks, ResetNothing,
                ResetDeleteWatermarks, ResetAborts
  <1>4. reset[k].scope \subseteq reset'[k].scope
    <2>1. ASSUME reset[k].pc = "idle"
          PROVE  reset[k].scope \subseteq reset'[k].scope
      BY <2>1 DEF IdleScopes
    <2>2. ASSUME ResetDeleteWatermarks(k) \/ ResetAborts(k)
          PROVE  reset'[k].scope = reset[k].scope
      BY <1>1, <2>2 DEF ResetDeleteWatermarks, ResetAborts
    <2> QED
      BY <2>1, <2>2 DEF ResetStep, ResetDeleteChunks, ResetNothing
  <1>5. \A t : Untouched(t)' => Untouched(t)
    BY <1>2, <1>4 DEF Untouched
  <1>6. ASSUME NEW t \in Tables, t \notin reset'[k].scope
        PROVE  exposed'[t] = exposed[t]
    <2>1. ASSUME NEW requested \in SUBSET Tables, ResetDeleteChunks(k, requested)
          PROVE  exposed'[t] = exposed[t]
      <3> DEFINE scope == IF requested = {} THEN Tables ELSE requested
      <3>1. /\ reset' = [reset EXCEPT ![k] = [pc |-> "deleting", scope |-> scope]]
            /\ exposed' = [u \in Tables |->
                        IF u \in scope
                        THEN Settle(Rows, source[u], watermark[u],
                                    Active(u) # {})
                        ELSE exposed[u]]
        BY <2>1 DEF ResetDeleteChunks
      <3> HIDE DEF scope
      <3>2. t \notin scope
        BY <1>1, <1>6, <3>1
      <3> QED
        BY <3>1, <3>2
    <2>2. CASE ResetDeleteWatermarks(k)
      <3>1. t \notin reset[k].scope
        BY <1>4, <1>6
      <3> QED
        BY <2>2, <3>1 DEF ResetDeleteWatermarks
    <2>3. ASSUME NEW requested \in SUBSET Tables, ResetNothing(k, requested)
          PROVE  exposed'[t] = exposed[t]
      BY <2>3 DEF ResetNothing
    <2>4. CASE ResetAborts(k)
      BY <2>4 DEF ResetAborts
    <2> QED
      BY <2>1, <2>2, <2>3, <2>4 DEF ResetStep
  <1>7. Unexposed'
    <2> SUFFICES ASSUME NEW t \in Tables, Untouched(t)'
                 PROVE  exposed'[t] = {}
      BY DEF Unexposed
    <2>1. t \notin reset'[k].scope
      BY DEF Untouched
    <2> QED
      BY <1>5, <1>6, <2>1 DEF Unexposed
  <1>8. IdleScopes'
    BY <1>2, <1>3 DEF IdleScopes
  <1> QED
    BY <1>7, <1>8

LEMMA UnexposedNext ==
    Types /\ Unexposed /\ IdleScopes /\ [Next]_vars => Unexposed' /\ IdleScopes'
  <1> SUFFICES ASSUME Types, Unexposed, IdleScopes, [Next]_vars
               PROVE  Unexposed' /\ IdleScopes'
    OBVIOUS
  <1>1. CASE UNCHANGED <<exposed, edits, reset>>
    BY <1>1 DEF Unexposed, Untouched, IdleScopes
  <1>2. ASSUME NEW t \in Tables, NEW r \in Rows, NEW new \in RowValues(t),
               EditSource(t, r, new)
        PROVE  Unexposed' /\ IdleScopes'
    <2>1. edits' # 0 /\ reset' = reset
      BY <1>2, BoundsAssumption DEF EditSource, Types
    <2> QED
      BY <2>1 DEF Unexposed, Untouched, IdleScopes
  <1>3. ChatEnsuresTable \/ UNCHANGED vars => UNCHANGED <<exposed, edits, reset>>
    BY DEF ChatEnsuresTable, vars
  <1> QED
    BY <1>1, <1>2, <1>3, UnexposedRun, UnexposedReset, Zenon DEF Next

LEMMA UnexposedInit == Init => Unexposed /\ IdleScopes
  BY DEF Init, Unexposed, IdleScopes

\* As long as nobody edits the source and no reset names a table, every row of
\* it that the next incremental scan will not read is in the store, however the
\* runs over it overlap, fail and crash.
THEOREM UntouchedCorrect ==
    Spec => [](\A t \in Tables : Untouched(t) =>
                \A r \in Rows : Covered(source[t][r], watermark[t]) => Stored(t, r))
  <1>1. Unexposed /\ WatermarkSound =>
            \A t \in Tables : Untouched(t) =>
                \A r \in Rows : Covered(source[t][r], watermark[t]) => Stored(t, r)
    BY DEF Unexposed, WatermarkSound
  <1>2. Spec => [](Unexposed /\ IdleScopes)
    BY UnexposedInit, UnexposedNext, TypeInit, TypeNext, PTL DEF Spec
  <1> QED
    BY <1>1, <1>2, WatermarkCorrect, PTL

\* Without an edit and a reset the documented promise holds: it takes one of
\* them to skip a row.
THEOREM QuietCorrect ==
    Spec => [](edits = 0 /\ (\A k \in Resets : reset[k].pc = "idle")
                    => NothingSkipped)
  <1>1. Unexposed /\ IdleScopes /\ WatermarkSound
            => (edits = 0 /\ (\A k \in Resets : reset[k].pc = "idle")
                    => NothingSkipped)
    <2> SUFFICES ASSUME Unexposed, IdleScopes, WatermarkSound, edits = 0,
                        \A k \in Resets : reset[k].pc = "idle",
                        NEW t \in Tables, NEW r \in Rows,
                        Covered(source[t][r], watermark[t])
                 PROVE  Stored(t, r)
      BY DEF NothingSkipped
    <2>1. \A k \in Resets : t \notin reset[k].scope
      BY DEF IdleScopes
    <2>2. exposed[t] = {}
      BY <2>1 DEF Unexposed, Untouched
    <2> QED
      BY <2>2 DEF WatermarkSound
  <1>2. Spec => [](Unexposed /\ IdleScopes)
    BY UnexposedInit, UnexposedNext, TypeInit, TypeNext, PTL DEF Spec
  <1> QED
    BY <1>1, <1>2, WatermarkCorrect, PTL

-----------------------------------------------------------------------------
(* A table that is left alone.                                             *)

\* No reset takes the chunks of t.
NotReset(t) ==
    \A k \in Resets : reset[k].pc = "idle" /\ reset'[k].pc = "deleting"
                        => t \notin reset'[k].scope

Calm(t) == source'[t] = source[t] /\ NotReset(t)

\* What a row that is out of reach has in common once nobody reads the table.
ExposedCovered ==
    \A t \in Tables : Active(t) = {} =>
        \A r \in exposed[t] : Covered(source[t][r], watermark[t])

\* A step inside the loop of _ingest_table: where it leaves the run.
LEMMA LoopStep ==
    ASSUME Types, NEW j \in Runs, FetchPage(j) \/ ProcessRow(j) \/ Flush(j)
    PROVE  \E after : /\ run' = [run EXCEPT ![j] = after]
                      /\ after.pc \in Scanning
                      /\ after.table = run[j].table
                      /\ after.todo = run[j].todo
                      /\ after.pc = "rows" => after.page # {}
  <1>1. run \in [Runs -> RunState] /\ run[j] \in RunState
    BY DEF Types
  <1>2. \A page, pending, eof :
            /\ Resume(page, pending, eof) \in Scanning
            /\ Resume(page, pending, eof) = "rows" => page # {}
    BY DEF Resume, Scanning
  <1>3. CASE FetchPage(j)
    <2> DEFINE me == run[j]
               found == PageOf(source[me.table], me.since, me.offset)
               eof == Cardinality(found) < BatchSize
               page == {[row |-> r, version |-> source[me.table][r].version,
                         stamp |-> source[me.table][r].stamp] : r \in found}
               pc == Resume(page, me.pending, eof)
               offset == IF eof THEN me.offset ELSE me.offset + BatchSize
               new == [me EXCEPT !.pc = pc, !.page = page, !.eof = eof,
                                 !.offset = offset]
    <2>1. run' = [run EXCEPT ![j] = new]
      BY <1>1, <1>3 DEF FetchPage, RunState
    <2>2. pc \in Scanning /\ (pc = "rows" => page # {})
      BY <1>2
    <2> HIDE DEF page, eof, found, pc, offset
    <2>3. /\ new.pc = pc /\ new.page = page
          /\ new.table = me.table /\ new.todo = me.todo
      BY <1>1 DEF RunState
    <2> HIDE DEF new
    <2> QED
      BY <2>1, <2>2, <2>3
  <1>4. CASE ProcessRow(j)
    <2> DEFINE me == run[j]
    <2>1. PICK p \in me.page :
            run' = [run EXCEPT ![j] =
              [me EXCEPT !.pc = IF Cardinality(me.pending \cup
                                               ChunksOf(p, me.offset))
                                     >= BatchSize
                                THEN "flush"
                                ELSE Resume(me.page \ {p},
                                            me.pending \cup
                                                ChunksOf(p, me.offset),
                                            me.eof),
                         !.page = me.page \ {p},
                         !.pending = me.pending \cup ChunksOf(p, me.offset),
                         !.max = IF p.stamp > me.max THEN p.stamp
                                                     ELSE me.max]]
      BY <1>4 DEF ProcessRow
    <2> DEFINE page == me.page \ {p}
               pending == me.pending \cup ChunksOf(p, me.offset)
               pc == IF Cardinality(pending) >= BatchSize THEN "flush"
                     ELSE Resume(page, pending, me.eof)
               max == IF p.stamp > me.max THEN p.stamp ELSE me.max
    <2>2. pc \in Scanning /\ (pc = "rows" => page # {})
      BY <1>2 DEF Scanning
    <2>3. run' = [run EXCEPT ![j] =
                    [run[j] EXCEPT !.pc = pc, !.page = page,
                                   !.pending = pending, !.max = max]]
      BY <2>1
    <2> HIDE DEF pc, page, pending, max, me
    <2> DEFINE new == [run[j] EXCEPT !.pc = pc, !.page = page,
                                     !.pending = pending, !.max = max]
    <2>4. /\ new.pc = pc /\ new.page = page
          /\ new.table = run[j].table /\ new.todo = run[j].todo
      BY <1>1 DEF RunState
    <2>5. run' = [run EXCEPT ![j] = new]
      BY <2>3
    <2> HIDE DEF new
    <2> QED
      BY <2>2, <2>4, <2>5
  <1>5. CASE Flush(j)
    <2> DEFINE pc == Resume(run[j].page, {}, run[j].eof)
               new == [run[j] EXCEPT !.pc = pc, !.pending = {}]
    <2>1. run' = [run EXCEPT ![j] = new]
      BY <1>5 DEF Flush
    <2>2. pc \in Scanning /\ (pc = "rows" => run[j].page # {})
      BY <1>2
    <2> HIDE DEF pc
    <2>3. /\ new.pc = pc /\ new.page = run[j].page
          /\ new.table = run[j].table /\ new.todo = run[j].todo
      BY <1>1 DEF RunState
    <2> HIDE DEF new
    <2> QED
      BY <2>1, <2>2, <2>3
  <1> QED
    BY <1>3, <1>4, <1>5

\* A step of a run that does not end a scan.
LEMMA RunStays ==
    ASSUME Types, NEW j \in Runs,
           \/ \E requested \in SUBSET Tables : StartIngestion(j, requested)
           \/ StartCli(j) \/ RunStep(j) \/ MarkFailedRaises(j) \/ Crash(j),
           ~SetWatermark(j), ~Raise(j), ~Crash(j)
    PROVE  /\ UNCHANGED <<source, watermark, exposed, reset>>
           /\ \A t \in Tables : Active(t) \subseteq Active(t)'
  <1>1. UNCHANGED <<source, watermark, exposed, reset>>
    BY DEF StartIngestion, StartCli, RunStep, MarkRunning, ReadWatermark,
           FetchPage, ProcessRow, Flush, Finish, MarkFailed, MarkFailedRaises
  <1>2. run \in [Runs -> RunState] /\ run[j] \in RunState
    BY DEF Types
  <1>3. ASSUME run[j].pc \notin Scanning,
               \A i \in Runs \ {j} : run'[i] = run[i]
        PROVE  \A t \in Tables : Active(t) \subseteq Active(t)'
    BY <1>3 DEF Active
  <1>4. CASE FetchPage(j) \/ ProcessRow(j) \/ Flush(j)
    <2>1. PICK after : /\ run' = [run EXCEPT ![j] = after]
                       /\ after.pc \in Scanning /\ after.table = run[j].table
      BY <1>4, LoopStep
    <2>2. \A t \in Tables : Active(t) \subseteq Active(t)'
      BY <1>2, <2>1 DEF Active
    <2> QED
      BY <1>1, <2>2
  <1>5. ASSUME \/ \E requested \in SUBSET Tables : StartIngestion(j, requested)
               \/ StartCli(j) \/ MarkRunning(j) \/ Finish(j) \/ MarkFailed(j)
               \/ MarkFailedRaises(j)
               \/ \E t \in Tables : ReadWatermark(j, t)
        PROVE  \A t \in Tables : Active(t) \subseteq Active(t)'
    <2>1. run[j].pc \notin Scanning
      BY <1>5 DEF StartIngestion, StartCli, MarkRunning, Finish, MarkFailed,
                  MarkFailedRaises, ReadWatermark, Scanning
    <2>2. \A i \in Runs \ {j} : run'[i] = run[i]
      BY <1>2, <1>5 DEF StartIngestion, StartCli, MarkRunning, Finish,
                  MarkFailed, MarkFailedRaises, ReadWatermark
    <2> QED
      BY <1>3, <2>1, <2>2
  <1> QED
    BY <1>1, <1>4, <1>5 DEF RunStep

\* A run that ends its scan settles what is exposed of its table.
LEMMA LeavingSettles ==
    ASSUME Types, ExposedCovered, NEW j \in Runs, NEW new, NEW marks,
           exposed' = ExposedAfter(j, marks), watermark' = marks,
           \A u \in Tables : u # run[j].table => marks[u] = watermark[u],
           run[j].pc \notin Scanning => marks = watermark,
           run' = [run EXCEPT ![j] = new], new.pc \notin Scanning,
           source' = source
    PROVE  ExposedCovered'
  <1>1. /\ exposed \in [Tables -> SUBSET Rows]
        /\ \A i \in Runs \ {j} : run'[i] = run[i]
        /\ run'[j].pc \notin Scanning
    BY DEF Types
  <1> SUFFICES ASSUME NEW t \in Tables, Active(t)' = {}, NEW r \in exposed'[t]
               PROVE  Covered(source[t][r], marks[t])
    BY DEF ExposedCovered
  <1>2. Active(t) \ {j} = {}
    BY <1>1 DEF Active
  <1>3. CASE run[j].pc \in Scanning /\ run[j].table = t
    <2>1. exposed'[t] = Settle(exposed[t], source[t], marks[t], FALSE)
      BY <1>1, <1>2, <1>3 DEF ExposedAfter
    <2> QED
      BY <2>1 DEF Settle
  <1>4. CASE ~(run[j].pc \in Scanning /\ run[j].table = t)
    <2>1. exposed'[t] = exposed[t] /\ Active(t) = {}
      BY <1>1, <1>2, <1>4 DEF ExposedAfter, Active
    <2> QED
      BY <1>4, <2>1 DEF ExposedCovered
  <1> QED
    BY <1>3, <1>4

LEMMA ExposedCoveredNext ==
    Types /\ ExposedCovered /\ [Next]_vars => ExposedCovered'
  <1> SUFFICES ASSUME Types, ExposedCovered, [Next]_vars
               PROVE  ExposedCovered'
    OBVIOUS
  <1>1. ASSUME NEW j \in Runs,
               \/ \E requested \in SUBSET Tables : StartIngestion(j, requested)
               \/ StartCli(j) \/ RunStep(j) \/ MarkFailedRaises(j) \/ Crash(j)
        PROVE  ExposedCovered'
    <2>1. CASE SetWatermark(j)
      <3>1. /\ run' = [run EXCEPT ![j] =
                            At("next", run[j].todo \ {run[j].table})]
            /\ exposed' = ExposedAfter(j, watermark') /\ source' = source
            /\ \A u \in Tables : u # run[j].table
                                    => watermark'[u] = watermark[u]
            /\ run[j].pc \in Scanning
        BY <2>1 DEF SetWatermark, Types, Scanning
      <3>2. At("next", run[j].todo \ {run[j].table}).pc \notin Scanning
        BY DEF At, Scanning
      <3> QED
        BY <3>1, <3>2, LeavingSettles
    <2>2. CASE Raise(j) \/ Crash(j)
      <3>1. PICK pc \in {"ended", "failing", "crashed"} :
                /\ run' = [run EXCEPT ![j] = At(pc, run[j].todo)]
                /\ exposed' = ExposedAfter(j, watermark)
                /\ source' = source /\ watermark' = watermark
        BY <2>2 DEF Raise, Crash
      <3>2. At(pc, run[j].todo).pc \notin Scanning
        BY DEF At, Scanning
      <3> QED
        BY <3>1, <3>2, LeavingSettles
    <2>3. CASE ~SetWatermark(j) /\ ~Raise(j) /\ ~Crash(j)
      BY <1>1, <2>3, RunStays DEF ExposedCovered
    <2> QED
      BY <2>1, <2>2, <2>3
  <1>2. ASSUME NEW k \in Resets, ResetStep(k)
        PROVE  ExposedCovered'
    <2>1. \A t \in Tables : Active(t)' = Active(t)
      BY <1>2 DEF ResetStep, ResetDeleteChunks, ResetNothing,
                  ResetDeleteWatermarks, ResetAborts, Active
    <2> SUFFICES ASSUME NEW t \in Tables, Active(t) = {}, NEW r \in exposed'[t]
                 PROVE  Covered(source[t][r], watermark[t])'
      BY <2>1 DEF ExposedCovered
    <2>2. r \in exposed[t] => Covered(source[t][r], watermark[t])
      BY DEF ExposedCovered
    <2>3. ASSUME NEW requested \in SUBSET Tables, ResetDeleteChunks(k, requested)
          PROVE  Covered(source[t][r], watermark[t])'
      BY <2>2, <2>3 DEF ResetDeleteChunks, Settle
    <2>4. CASE ResetDeleteWatermarks(k)
      BY <2>2, <2>4 DEF ResetDeleteWatermarks, Settle
    <2>5. ASSUME \/ ResetAborts(k)
                 \/ \E requested \in SUBSET Tables : ResetNothing(k, requested)
          PROVE  Covered(source[t][r], watermark[t])'
      BY <2>2, <2>5 DEF ResetAborts, ResetNothing
    <2> QED
      BY <1>2, <2>3, <2>4, <2>5 DEF ResetStep
  <1>3. ASSUME NEW t \in Tables, NEW r \in Rows, NEW new \in RowValues(t),
               EditSource(t, r, new)
        PROVE  ExposedCovered'
    <2>1. /\ \A u \in Tables : Active(u)' = Active(u)
          /\ watermark' = watermark
          /\ \A u \in Tables \ {t} : /\ source'[u] = source[u]
                                     /\ exposed'[u] = exposed[u]
      BY <1>3 DEF EditSource, Active, Types
    <2>2. Active(t) = {} => \A q \in exposed'[t] :
                                Covered(source'[t][q], watermark[t])
      BY <1>3 DEF EditSource, Settle, Types
    <2> QED
      BY <2>1, <2>2 DEF ExposedCovered
  <1>4. ChatEnsuresTable \/ UNCHANGED vars
            => UNCHANGED <<source, watermark, run, exposed>>
    BY DEF ChatEnsuresTable, vars
  <1>5. UNCHANGED <<source, watermark, run, exposed>> => ExposedCovered'
    BY DEF ExposedCovered, Active
  <1> QED
    BY <1>1, <1>2, <1>3, <1>4, <1>5, Zenon DEF Next

\* A row is out of reach of the next scan only because the watermark covers it:
\* when nobody reads a table, the history holds nothing else.
THEOREM ExposedCoveredCorrect == Spec => []ExposedCovered
  <1>1. Init => ExposedCovered
    BY DEF Init, ExposedCovered
  <1> QED
    BY <1>1, ExposedCoveredNext, TypeInit, TypeNext, PTL DEF Spec

LEMMA CalmStep ==
    ASSUME Types, [Next]_vars, NEW t \in Tables, Calm(t), exposed[t] = {}
    PROVE  exposed'[t] = {}
  <1>1. /\ exposed \in [Tables -> SUBSET Rows]
        /\ source \in [Tables -> [Rows -> [version : 0..MaxVersion,
                                           stamp : 0..MaxStamp]]]
        /\ reset \in [Resets -> [pc : {"idle", "deleting", "answered", "aborted"},
                                 scope : SUBSET Tables]]
    BY DEF Types
  <1>2. ASSUME NEW j \in Runs,
               \/ \E requested \in SUBSET Tables : StartIngestion(j, requested)
               \/ StartCli(j) \/ RunStep(j) \/ MarkFailedRaises(j) \/ Crash(j)
        PROVE  exposed'[t] = {}
    <2>1. ASSUME NEW marks, exposed' = ExposedAfter(j, marks)
          PROVE  exposed'[t] = {}
      BY <1>1, <2>1, SettleEmpty DEF ExposedAfter
    <2>2. CASE SetWatermark(j) \/ Raise(j) \/ Crash(j)
      BY <2>1, <2>2 DEF SetWatermark, Raise, Crash
    <2>3. CASE ~SetWatermark(j) /\ ~Raise(j) /\ ~Crash(j)
      BY <1>2, <2>3, RunStays
    <2> QED
      BY <2>2, <2>3
  <1>3. ASSUME NEW k \in Resets, ResetStep(k)
        PROVE  exposed'[t] = {}
    <2>1. ASSUME NEW requested \in SUBSET Tables, ResetDeleteChunks(k, requested)
          PROVE  exposed'[t] = {}
      <3> DEFINE scope == IF requested = {} THEN Tables ELSE requested
      <3>1. /\ reset[k].pc = "idle"
            /\ reset' = [reset EXCEPT ![k] = [pc |-> "deleting", scope |-> scope]]
            /\ exposed' = [u \in Tables |->
                        IF u \in scope
                        THEN Settle(Rows, source[u], watermark[u],
                                    Active(u) # {})
                        ELSE exposed[u]]
        BY <2>1 DEF ResetDeleteChunks
      <3> HIDE DEF scope
      <3>2. t \notin scope
        BY <1>1, <3>1 DEF Calm, NotReset
      <3> QED
        BY <3>1, <3>2
    <2>2. CASE ResetDeleteWatermarks(k)
      BY <2>2, SettleEmpty DEF ResetDeleteWatermarks
    <2>3. ASSUME \/ ResetAborts(k)
                 \/ \E requested \in SUBSET Tables : ResetNothing(k, requested)
          PROVE  exposed'[t] = {}
      BY <2>3 DEF ResetAborts, ResetNothing
    <2> QED
      BY <1>3, <2>1, <2>2, <2>3 DEF ResetStep
  <1>4. ASSUME NEW u \in Tables, NEW r \in Rows, NEW new \in RowValues(u),
               EditSource(u, r, new)
        PROVE  exposed'[t] = {}
    <2>1. /\ new # source[u][r] /\ source' = [source EXCEPT ![u][r] = new]
          /\ exposed' = [exposed EXCEPT ![u] = exposed'[u]]
      BY <1>1, <1>4 DEF EditSource
    <2>2. u # t
      BY <1>1, <2>1 DEF Calm
    <2> QED
      BY <1>1, <2>1, <2>2
  <1>5. ChatEnsuresTable \/ UNCHANGED vars => exposed' = exposed
    BY DEF ChatEnsuresTable, vars
  <1> QED
    BY <1>2, <1>3, <1>4, <1>5, Zenon DEF Next

\* Nobody reads the table and it has no watermark: as before its first
\* ingestion, and as after a reset that has gone all the way.
CleanSlate(t) == Active(t) = {} /\ watermark[t] = 0

LEMMA CleanUnexposed ==
    ASSUME ExposedCovered, NEW t \in Tables, CleanSlate(t), Types
    PROVE  exposed[t] = {}
  BY DEF ExposedCovered, CleanSlate, Covered, Types

\* delete_watermarks: a reset that finds nobody reading the table and goes all
\* the way mends what was skipped.  From then on, and as long as the table is
\* neither edited nor reset again, every row the next incremental scan will not
\* read is in the store, however many runs overlap, fail and crash.
THEOREM ResetMends ==
    ASSUME NEW t \in Tables
    PROVE  Spec => [](CleanSlate(t) /\ [][Calm(t)]_vars =>
                        [](\A r \in Rows : Covered(source[t][r], watermark[t])
                                                => Stored(t, r)))
  <1> DEFINE Empty == exposed[t] = {}
             Goal == \A r \in Rows : Covered(source[t][r], watermark[t])
                                                => Stored(t, r)
  <1>1. Types /\ ExposedCovered /\ CleanSlate(t) => Empty
    BY CleanUnexposed
  <1>2. Types /\ Empty /\ [Next]_vars /\ [Calm(t)]_vars => Empty'
    <2>1. UNCHANGED vars => Calm(t)
      BY DEF vars, Calm, NotReset
    <2> QED
      BY <2>1, CalmStep
  <1>3. WatermarkSound /\ Empty => Goal
    BY DEF WatermarkSound
  <1> HIDE DEF Empty, Goal
  <1>4. Spec => [](CleanSlate(t) /\ [][Calm(t)]_vars => []Goal)
    BY <1>1, <1>2, <1>3, TypesCorrect, ExposedCoveredCorrect, WatermarkCorrect,
       PTL DEF Spec
  <1> QED
    BY <1>4 DEF Goal

=============================================================================
