----------------------------- MODULE MCRecords ------------------------------
(***************************************************************************)
(* Values for the constants of Records, for model checking.                *)
(***************************************************************************)
EXTENDS Records, SequencesExt

\* Texts of up to three sentences, of a length that fits twice into a chunk of
\* five characters, or not at all.
SmallTexts == BoundedSeq({2, 7}, 3)

\* No overlap in both ways, a short one, and one longer than most chunks.
SomeOverlaps == {-1, 0, 3, 9}

=============================================================================
