---------------------------- MODULE MCIngestion -----------------------------
(***************************************************************************)
(* Small instances of Ingestion for TLC.                                   *)
(***************************************************************************)
EXTENDS Ingestion, TLC

\* Runs and resets are interchangeable.
Symmetry == Permutations(Runs) \cup Permutations(Resets)

\* Every row becomes one chunk.
OneChunk == [r \in Rows |-> [v \in 1..MaxVersion |-> 1]]

\* An odd row has two chunks at first and one after an edit; an even row one
\* chunk and then none (its text has become empty).
MixedChunks == [r \in Rows |-> [v \in 1..MaxVersion |->
                    IF v = 1 THEN 1 + (r % 2) ELSE r % 2]]

\* Tables that start with any mixture of absent rows and old rows.
SomeRows == [t \in Tables |-> {Absent, [version |-> 1, stamp |-> 1]}]

\* Tables of which each starts with rows of one stamp: none without a watermark
\* column, and the earlier the table, the later its stamp.
TableRows == [t \in Tables |-> {[version |-> 1,
                                 stamp |-> IF t \notin Watermarked THEN 0
                                           ELSE IF t = 1 THEN 2 ELSE 1]}]

=============================================================================
