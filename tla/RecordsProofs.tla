--------------------------- MODULE RecordsProofs ----------------------------
(***************************************************************************)
(* Proofs about Records: for every text, chunk_size and chunk_overlap the  *)
(* loop of chunk_text loses no sentence and keeps its bounds; and the      *)
(* metadata of a chunk names its record.                                   *)
(***************************************************************************)
EXTENDS Records, SequenceTheorems, TLAPS

\* Before the loop there is no chunk, and in the loop there is one in hand
\* from the first turn on.
Shape ==
    /\ pc \in {"extract", "normalize", "raised"} =>
            next = 1 /\ current = NoChunk /\ chunks = <<>>
    /\ pc = "pack" /\ current = NoChunk => next = 1 /\ chunks = <<>>
    /\ pc = "pack" /\ current # NoChunk => Len(chunks) + 1 < next
    /\ pc = "done" => current = NoChunk /\ next = Len(text) + 1

IInv == TypeOK /\ Shape /\ SentencesKept /\ PackedTight

-----------------------------------------------------------------------------
LEMMA NoChunkIsNone == NoChunk \notin Chunk
  BY DEF NoChunk, Chunk

LEMMA ChunkFields ==
  ASSUME NEW c \in Chunk
  PROVE  /\ c.carried \in Nat /\ c.first \in Nat \ {0}
         /\ c.last \in Nat \ {0} /\ c.length \in Nat \ {0}
  BY DEF Chunk

\* Two texts joined are longer than each.
LEMMA JoinedType ==
  ASSUME NEW a \in Nat, NEW b \in Nat \ {0}
  PROVE  /\ Joined(a, b) \in Nat \ {0}
         /\ a = 0 => Joined(a, b) = b
         /\ a # 0 => Joined(a, b) = a + 1 + b
  BY DEF Joined

\* The tail of a chunk is part of it and no longer than the overlap.
LEMMA TailsBounded ==
  ASSUME NEW c \in Chunk, overlap \in Int, NEW tail \in Tails(c)
  PROVE  /\ tail \in Nat
         /\ tail <= c.length
         /\ overlap <= 0 => tail = 0
         /\ overlap > 0 => tail > 0 /\ tail <= overlap
  BY ChunkFields DEF Tails

\* What TypeOK says of the next sentence and of the chunk in hand.
LEMMA TurnTypes ==
  ASSUME TypeOK, next <= Len(text)
  PROVE  /\ next \in Nat \ {0} /\ text[next] \in Nat \ {0}
         /\ size \in Int /\ overlap \in Int
         /\ current # NoChunk => current \in Chunk
  BY SettingsAssumption DEF TypeOK

\* Appending one chunk.
LEMMA AppendOne ==
  ASSUME NEW s \in Seq(Chunk), NEW c \in Chunk
  PROVE  /\ Append(s, c) \in Seq(Chunk)
         /\ Len(s) \in Nat /\ Len(Append(s, c)) = Len(s) + 1
         /\ DOMAIN Append(s, c) = 1..(Len(s) + 1)
         /\ \A k \in 1..Len(s) : Append(s, c)[k] = s[k] /\ s[k] \in Chunk
         /\ Append(s, c)[Len(s) + 1] = c
         /\ Append(s, c) # <<>>
  OBVIOUS

LEMMA InitInvariant == Init => IInv
  <1> SUFFICES ASSUME Init PROVE IInv
    OBVIOUS
  <1>1. TypeOK
    BY TextsAssumption DEF Init, TypeOK
  <1>2. Shape
    BY DEF Init, Shape
  <1>3. Packed = <<>>
    BY DEF Init, Packed
  <1> QED
    BY <1>1, <1>2, <1>3 DEF IInv, SentencesKept, PackedTight, Init

-----------------------------------------------------------------------------
(* The turns of the loop.                                                  *)

LEMMA AddSentenceStep == IInv /\ AddSentence => IInv'
  <1> SUFFICES ASSUME IInv, AddSentence PROVE IInv'
    OBVIOUS
  <1> USE DEF IInv
  <1>1. /\ next \in Nat \ {0} /\ text[next] \in Nat \ {0}
        /\ size \in Int /\ overlap \in Int
        /\ next <= Len(text)
        /\ current # NoChunk => current \in Chunk
    BY TurnTypes DEF AddSentence
  <1>2. /\ pc' = "pack" /\ pc = "pack" /\ next' = next + 1
        /\ UNCHANGED <<size, overlap, text, chunks>>
    BY DEF AddSentence
  <1>3. CASE current = NoChunk
    <2>1. chunks = <<>> /\ next = 1
      BY <1>2, <1>3 DEF Shape
    <2>2. current' = [carried |-> 0, first |-> 1, last |-> 1,
                      length |-> text[1]]
      BY <1>1, <1>3, <2>1, JoinedType DEF AddSentence, NoChunk
    <2>3. current' \in Chunk
      BY <1>1, <2>1, <2>2 DEF Chunk
    <2>4. TypeOK'
      BY <1>1, <1>2, <2>1, <2>3 DEF TypeOK
    <2>5. current' # NoChunk
      BY <2>3, NoChunkIsNone
    <2>6. Shape'
      BY <1>2, <2>1, <2>5 DEF Shape
    <2>7. /\ Packed' = <<current'>> /\ DOMAIN Packed' = {1}
          /\ Len(Packed') = 1 /\ Packed'[1] = current' /\ Packed' # <<>>
      BY <1>2, <2>1, <2>5, <2>3 DEF Packed
    <2>8. SentencesKept'
      BY <1>2, <2>1, <2>2, <2>7 DEF SentencesKept
    <2>9. PackedTight'
      BY <1>1, <1>2, <2>1, <2>2, <2>7 DEF PackedTight
    <2> QED
      BY <2>4, <2>6, <2>8, <2>9
  <1>4. CASE current # NoChunk
    <2>1. current \in Chunk /\ chunks \in Seq(Chunk)
      BY <1>1, <1>4 DEF TypeOK
    <2> DEFINE n == Len(chunks)
    <2>2. Packed = Append(chunks, current) /\ Joined(current.length, text[next]) <= size
      BY <1>4 DEF Packed, AddSentence, Fits
    <2>3. current.last = next - 1
      BY <2>1, <2>2, AppendOne DEF SentencesKept
    <2>4. current' = [carried |-> current.carried, first |-> current.first,
                      last |-> next,
                      length |-> Joined(current.length, text[next])]
      BY <1>4 DEF AddSentence
    <2>14. /\ current.carried \in Nat /\ current.first \in Nat \ {0}
           /\ current.last \in Nat \ {0} /\ current.length \in Nat \ {0}
      BY <2>1, ChunkFields
    <2>15. Joined(current.length, text[next]) \in Nat \ {0}
      BY <1>1, <2>14, JoinedType
    <2>16. current' \in Chunk
      BY <1>1, <2>4, <2>14, <2>15 DEF Chunk
    <2>5. current' \in Chunk /\ current' # NoChunk
      BY <2>16, NoChunkIsNone
    <2>6. TypeOK'
      BY <1>1, <1>2, <2>1, <2>5 DEF TypeOK
    <2>7. Shape'
      BY <1>1, <1>2, <1>4, <2>1, <2>5, AppendOne DEF Shape
    <2>8. Packed' = Append(chunks, current')
      BY <1>2, <2>5 DEF Packed
    <2>9. /\ DOMAIN Packed = 1..(n + 1) /\ DOMAIN Packed' = 1..(n + 1)
          /\ \A k \in 1..n : Packed'[k] = Packed[k]
          /\ Packed'[n + 1] = current' /\ Packed[n + 1] = current
          /\ n \in Nat /\ Len(Packed') = n + 1 /\ Packed' # <<>>
      BY <2>1, <2>2, <2>5, <2>8, AppendOne
    <2> HIDE DEF n
    <2>10. /\ current'.first = current.first /\ current'.last = next
           /\ current'.carried = current.carried
           /\ current'.length = Joined(current.length, text[next])
           /\ current'.length <= size
           /\ current.first \in Nat /\ current.last \in Nat
           /\ current.first <= current.last
      <3>1. current.first <= current.last
        BY <2>9 DEF SentencesKept
      <3> QED
        BY <2>2, <2>4, <2>14, <3>1
    <2>11. SentencesKept'
      <3>1. ASSUME NEW k \in 1..(n + 1)
            PROVE  /\ Packed'[k].first <= Packed'[k].last
                   /\ Packed'[k].first = IF k = 1 THEN 1
                                                  ELSE Packed'[k - 1].last + 1
        <4>1. CASE k \in 1..n
          <5>1. k # 1 => k - 1 \in 1..n
            BY <2>9, <4>1
          <5> QED
            BY <2>9, <4>1, <5>1 DEF SentencesKept
        <4>2. CASE k = n + 1
          <5>1. k # 1 => k - 1 \in 1..n /\ Packed'[k - 1] = Packed[k - 1]
            BY <2>9, <4>2
          <5>2. current.first = IF k = 1 THEN 1 ELSE Packed[k - 1].last + 1
            BY <2>9, <4>2 DEF SentencesKept
          <5> QED
            BY <1>1, <2>3, <2>9, <2>10, <4>2, <5>1, <5>2
        <4> QED
          BY <2>9, <4>1, <4>2
      <3> QED
        BY <1>1, <1>2, <2>9, <2>10, <3>1 DEF SentencesKept
    <2>12. PackedTight'
      <3>1. ASSUME NEW k \in 1..(n + 1), Packed'[k].length > size
            PROVE  /\ Packed'[k].first = Packed'[k].last
                   /\ Packed'[k].length <= text[Packed'[k].first]
                            + IF overlap > 0 THEN overlap + 1 ELSE 0
        <4>1. k # n + 1
          BY <1>1, <2>9, <2>10, <2>15, <3>1
        <4> QED
          BY <2>9, <3>1, <4>1 DEF PackedTight
      <3>2. ASSUME NEW k \in 1..(n + 1), k # 1
            PROVE  Joined(Packed'[k - 1].length, text[Packed'[k].first]) > size
        <4>1. k - 1 \in 1..n /\ Packed'[k - 1] = Packed[k - 1]
          BY <2>9, <3>2
        <4>2. Packed'[k].first = Packed[k].first
          BY <2>9, <2>10, <3>2
        <4> QED
          BY <2>9, <3>2, <4>1, <4>2 DEF PackedTight
      <3> QED
        BY <1>2, <2>9, <3>1, <3>2 DEF PackedTight
    <2> QED
      BY <2>6, <2>7, <2>11, <2>12
  <1> QED
    BY <1>3, <1>4

LEMMA CloseChunkStep == IInv /\ CloseChunk => IInv'
  <1> SUFFICES ASSUME IInv, CloseChunk PROVE IInv'
    OBVIOUS
  <1> USE DEF IInv
  <1>1. /\ next \in Nat \ {0} /\ text[next] \in Nat \ {0}
        /\ size \in Int /\ overlap \in Int
        /\ next <= Len(text) /\ current # NoChunk /\ current \in Chunk
        /\ chunks \in Seq(Chunk)
    BY TurnTypes DEF CloseChunk, TypeOK
  <1>2. /\ pc' = "pack" /\ pc = "pack" /\ next' = next + 1
        /\ UNCHANGED <<size, overlap, text>>
        /\ chunks' = Append(chunks, current)
        /\ Joined(current.length, text[next]) > size
    <2>1. /\ current.length \in Nat
          /\ Joined(current.length, text[next]) \in Nat
      BY <1>1, ChunkFields, JoinedType
    <2> QED
      BY <1>1, <2>1 DEF CloseChunk, Fits
  <1>3. PICK tail \in Tails(current) :
            current' = [carried |-> tail, first |-> next, last |-> next,
                        length |-> Joined(tail, text[next])]
    BY DEF CloseChunk
  <1>4. /\ tail \in Nat /\ tail <= current.length
        /\ overlap <= 0 => tail = 0
        /\ overlap > 0 => tail > 0 /\ tail <= overlap
    BY <1>1, TailsBounded
  <1>5. /\ Joined(tail, text[next]) \in Nat \ {0}
        /\ Joined(tail, text[next]) <=
                text[next] + IF overlap > 0 THEN overlap + 1 ELSE 0
    <2>1. Joined(tail, text[next]) \in Nat \ {0}
      BY <1>1, <1>4, JoinedType
    <2>2. CASE tail = 0
      <3>1. Joined(tail, text[next]) = text[next]
        BY <2>2 DEF Joined
      <3> HIDE DEF Joined
      <3> QED
        BY <1>1, <2>1, <3>1
    <2>3. CASE tail # 0
      <3>1. Joined(tail, text[next]) = tail + 1 + text[next]
        BY <2>3 DEF Joined
      <3>2. overlap > 0 /\ tail <= overlap
        BY <1>1, <1>4, <2>3
      <3>3. tail + 1 + text[next] <= text[next] + (overlap + 1)
        BY <1>1, <1>4, <3>2
      <3> QED
        BY <2>1, <3>1, <3>2, <3>3
    <2> QED
      BY <2>2, <2>3
  <1>6. current' \in Chunk
    BY <1>1, <1>3, <1>4, <1>5 DEF Chunk
  <1>7. current' # NoChunk
    BY <1>6, NoChunkIsNone
  <1> DEFINE n == Len(chunks')
  <1>8. Packed = chunks' /\ Packed' = Append(chunks', current')
    BY <1>1, <1>2, <1>7 DEF Packed
  <1>9. /\ chunks' \in Seq(Chunk) /\ n = Len(chunks) + 1 /\ n \in Nat \ {0}
        /\ Packed[n] = current /\ Packed # <<>>
    BY <1>1, <1>2, <1>8, AppendOne
  <1>10. /\ DOMAIN Packed = 1..n /\ DOMAIN Packed' = 1..(n + 1)
         /\ \A k \in 1..n : Packed'[k] = Packed[k]
         /\ Packed'[n + 1] = current' /\ Packed' # <<>>
         /\ Len(Packed') = n + 1 /\ Len(Packed) = n
    BY <1>6, <1>8, <1>9, AppendOne
  <1> HIDE DEF n
  <1>11. TypeOK'
    <2>1. Len(chunks) + 1 < next
      BY <1>1, <1>2 DEF Shape
    <2> QED
      BY <1>1, <1>2, <1>6, <1>9, <2>1 DEF TypeOK, n
  <1>12. Shape'
    <2>1. Len(chunks) + 1 < next
      BY <1>1, <1>2 DEF Shape
    <2> QED
      BY <1>1, <1>2, <1>7, <1>9, <2>1 DEF Shape, n
  <1>13. current.last = next - 1
    BY <1>9, <1>10 DEF SentencesKept
  <1>14. SentencesKept'
    <2>1. ASSUME NEW k \in 1..(n + 1)
          PROVE  /\ Packed'[k].first <= Packed'[k].last
                 /\ Packed'[k].first = IF k = 1 THEN 1
                                                ELSE Packed'[k - 1].last + 1
      <3>1. CASE k \in 1..n
        <4>1. k # 1 => k - 1 \in 1..n
          BY <1>9, <3>1
        <4> QED
          BY <1>10, <3>1, <4>1 DEF SentencesKept
      <3>2. CASE k = n + 1
        BY <1>1, <1>3, <1>9, <1>10, <1>13, <3>2
      <3> QED
        BY <1>9, <3>1, <3>2
    <2>2. Packed'[Len(Packed')].last = next' - 1
      BY <1>1, <1>2, <1>3, <1>10
    <2> QED
      BY <1>2, <1>10, <2>1, <2>2 DEF SentencesKept
  <1>15. PackedTight'
    <2>1. ASSUME NEW k \in 1..(n + 1), Packed'[k].length > size
          PROVE  /\ Packed'[k].first = Packed'[k].last
                 /\ Packed'[k].length <= text[Packed'[k].first]
                          + IF overlap > 0 THEN overlap + 1 ELSE 0
      <3>1. CASE k \in 1..n
        BY <1>10, <2>1, <3>1 DEF PackedTight
      <3>2. CASE k = n + 1
        BY <1>3, <1>5, <1>10, <3>2
      <3> QED
        BY <1>9, <3>1, <3>2
    <2>2. ASSUME NEW k \in 1..(n + 1), k # 1
          PROVE  Joined(Packed'[k - 1].length, text[Packed'[k].first]) > size
      <3>1. CASE k \in 1..n
        <4>1. k - 1 \in 1..n
          BY <1>9, <2>2, <3>1
        <4> QED
          BY <1>10, <2>2, <3>1, <4>1 DEF PackedTight
      <3>2. CASE k = n + 1
        <4>1. k - 1 = n /\ n \in 1..n
          BY <1>9, <3>2
        <4> QED
          BY <1>2, <1>3, <1>9, <1>10, <3>2, <4>1
      <3> QED
        BY <1>9, <3>1, <3>2
    <2> QED
      BY <1>2, <1>10, <2>1, <2>2 DEF PackedTight
  <1> QED
    BY <1>11, <1>12, <1>14, <1>15

LEMMA FinishStep == IInv /\ Finish => IInv'
  <1> SUFFICES ASSUME IInv, Finish PROVE IInv'
    OBVIOUS
  <1> USE DEF IInv
  <1>1. /\ pc = "pack" /\ pc' = "done" /\ next > Len(text)
        /\ current' = NoChunk /\ chunks' = Packed
        /\ UNCHANGED <<row, related, config, size, overlap, columns, text, next>>
    BY DEF Finish, Packed
  <1>2. Packed' = Packed
    BY <1>1 DEF Packed
  <1>3. Packed \in Seq(Chunk) /\ Len(Packed) < next
    <2>1. CASE current = NoChunk
      BY <2>1 DEF Packed, TypeOK
    <2>2. CASE current # NoChunk
      <3>1. current \in Chunk /\ chunks \in Seq(Chunk)
        BY <2>2 DEF TypeOK
      <3>2. Len(chunks) + 1 < next
        BY <1>1, <2>2 DEF Shape
      <3> QED
        BY <2>2, <3>1, <3>2, AppendOne DEF Packed
    <2> QED
      BY <2>1, <2>2
  <1>4. next \in 1..(Len(text) + 1) /\ Len(text) \in Nat
    BY DEF TypeOK
  <1>5. next = Len(text) + 1
    BY <1>1, <1>4
  <1>6. TypeOK'
    BY <1>1, <1>3 DEF TypeOK
  <1>7. Shape'
    BY <1>1, <1>5 DEF Shape
  <1>8. SentencesKept'
    BY <1>1, <1>2, <1>5 DEF SentencesKept
  <1>9. PackedTight'
    BY <1>1, <1>2 DEF PackedTight
  <1> QED
    BY <1>6, <1>7, <1>8, <1>9

-----------------------------------------------------------------------------
(* Before the loop.                                                        *)

\* A step that goes on without a chunk.
LEMMA QuietStep ==
  ASSUME IInv, pc \in {"extract", "normalize"},
         pc' \in {"normalize", "pack", "raised"},
         text' \in Seq(Nat \ {0}),
         UNCHANGED <<size, overlap, next, current, chunks>>
  PROVE  IInv'
  <1> USE DEF IInv
  <1>1. next = 1 /\ current = NoChunk /\ chunks = <<>>
    BY DEF Shape
  <1>2. TypeOK'
    BY <1>1 DEF TypeOK
  <1>3. Shape'
    BY <1>1 DEF Shape
  <1>4. Packed' = <<>> /\ DOMAIN Packed' = {}
    BY <1>1 DEF Packed
  <1> QED
    BY <1>1, <1>2, <1>3, <1>4 DEF SentencesKept, PackedTight

LEMMA NextInvariant == IInv /\ [Next]_vars => IInv'
  <1> SUFFICES ASSUME IInv, [Next]_vars PROVE IInv'
    OBVIOUS
  <1>0. text \in Seq(Nat \ {0})
    BY DEF IInv, TypeOK
  <1>1. CASE Extract
    BY <1>0, <1>1, QuietStep DEF Extract
  <1>2. CASE NormalizeDefault
    <2>1. text' \in Seq(Nat \ {0})
      BY <1>2, TextsAssumption DEF NormalizeDefault
    <2> QED
      BY <1>2, <2>1, QuietStep DEF NormalizeDefault
  <1>3. CASE NormalizeTemplate
    <2>1. text' \in Seq(Nat \ {0})
      BY <1>3, TextsAssumption DEF NormalizeTemplate
    <2> QED
      BY <1>3, <2>1, QuietStep DEF NormalizeTemplate
  <1>4. CASE Raise
    BY <1>0, <1>4, QuietStep DEF Raise
  <1>5. CASE AddSentence
    BY <1>5, AddSentenceStep
  <1>6. CASE CloseChunk
    BY <1>6, CloseChunkStep
  <1>7. CASE Finish
    BY <1>7, FinishStep
  <1>8. CASE UNCHANGED vars
    <2>1. Packed' = Packed
      BY <1>8 DEF vars, Packed
    <2> QED
      BY <1>8, <2>1 DEF vars, IInv, TypeOK, Shape, SentencesKept,
                        PackedTight
  <1> QED
    BY <1>1, <1>2, <1>3, <1>4, <1>5, <1>6, <1>7, <1>8 DEF Next

-----------------------------------------------------------------------------
\* chunk_text keeps its types for every text and every setting; a text has no
\* more chunks than sentences.
THEOREM TypeCorrect == Spec => []TypeOK
  <1>1. IInv => TypeOK
    BY DEF IInv
  <1> QED
    BY InitInvariant, NextInvariant, <1>1, PTL DEF Spec

\* chunk_text loses no sentence of a text and packs none twice.
THEOREM SentencesCorrect == Spec => []SentencesKept
  <1>1. IInv => SentencesKept
    BY DEF IInv
  <1> QED
    BY InitInvariant, NextInvariant, <1>1, PTL DEF Spec

\* chunk_text packs as tightly as its docstring says, up to the overlap.
THEOREM PackingCorrect == Spec => []PackedTight
  <1>1. IInv => PackedTight
    BY DEF IInv
  <1> QED
    BY InitInvariant, NextInvariant, <1>1, PTL DEF Spec

-----------------------------------------------------------------------------
(* What the metadata says.                                                 *)

\* A related table comes as a list, and once the row is extracted its columns
\* are those kept and the related tables.
FromRow ==
    /\ \A c \in DOMAIN related : related[c] \in {"rows", "empty"}
    /\ pc \in {"normalize", "pack", "done"} =>
            columns = Extracted(DOMAIN row \ config.exclude)

\* An attribute is a column of the row that was kept.
LEMMA AttributesAreKept ==
  ASSUME FromRow, pc \in {"normalize", "pack", "done"}
  PROVE  Attributes \subseteq DOMAIN row \ config.exclude
  <1> SUFFICES ASSUME NEW c \in Attributes
               PROVE  c \in DOMAIN row \ config.exclude
    OBVIOUS
  <1> DEFINE kept == DOMAIN row \ config.exclude
  <1>1. columns = Extracted(kept)
    BY DEF FromRow
  <1>2. c \in DOMAIN columns /\ columns[c] \in {"scalar", "null"}
    BY DEF Attributes
  <1>3. c \in kept \cup DOMAIN related
    BY <1>1, <1>2 DEF Extracted
  <1>4. c \in DOMAIN related => columns[c] = related[c]
    BY <1>1, <1>3 DEF Extracted
  <1>5. c \notin DOMAIN related
    BY <1>2, <1>4 DEF FromRow
  <1> QED
    BY <1>3, <1>5

LEMMA FromRowInvariant == Spec => []FromRow
  <1>1. Init => FromRow
    <2> SUFFICES ASSUME Init PROVE FromRow
      OBVIOUS
    <2>1. PICK names \in SUBSET Columns : related \in [names -> {"rows", "empty"}]
      BY DEF Init
    <2> QED
      BY <2>1 DEF Init, FromRow
  <1>2. FromRow /\ [Next]_vars => FromRow'
    <2> SUFFICES ASSUME FromRow, [Next]_vars PROVE FromRow'
      OBVIOUS
    <2>1. CASE Extract
      BY <2>1 DEF Extract, FromRow, Extracted
    <2>2. CASE UNCHANGED <<row, related, config, columns>> /\ pc # "extract"
              /\ (pc' \in {"normalize", "pack", "done"}
                    => pc \in {"normalize", "pack", "done"})
      BY <2>2 DEF FromRow, Extracted
    <2>3. CASE UNCHANGED <<row, related, config, columns>> /\ pc' = "raised"
      BY <2>3 DEF FromRow
    <2>4. CASE UNCHANGED vars
      BY <2>4 DEF vars, FromRow, Extracted
    <2> QED
      BY <2>1, <2>2, <2>3, <2>4 DEF Next, NormalizeDefault, NormalizeTemplate,
          Raise, AddSentence, CloseChunk, Finish
  <1> QED
    BY <1>1, <1>2, PTL DEF Spec

\* Every chunk can be found by its table, its key and its roles, unless a column
\* that was not excluded goes by one of those names.
THEOREM LineageCorrect == Spec => []NamesTheirRecord
  <1>1. FromRow => NamesTheirRecord
    <2> SUFFICES ASSUME FromRow, pc \in {"pack", "done"}
                 PROVE  /\ \A key \in Structural :
                                key \notin DOMAIN row \ config.exclude
                                    => Metadata[key] = "record"
                        /\ DOMAIN Metadata \cap config.exclude
                                \subseteq Structural
      BY DEF NamesTheirRecord
    <2>1. Attributes \subseteq DOMAIN row \ config.exclude
      BY AttributesAreKept
    <2> HIDE DEF Attributes
    <2>2. DOMAIN Metadata = Structural \cup Attributes
      BY DEF Metadata
    <2>3. ASSUME NEW key \in Structural,
                 key \notin DOMAIN row \ config.exclude
          PROVE  Metadata[key] = "record"
      BY <2>1, <2>3 DEF Metadata
    <2> QED
      BY <2>1, <2>2, <2>3
  <1> QED
    BY FromRowInvariant, <1>1, PTL

=============================================================================
