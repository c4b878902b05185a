------------------------------ MODULE Records -------------------------------
(***************************************************************************)
(* From a row of a source table to the chunks of one record: the row is    *)
(* extracted with its related rows, rendered as text, split into           *)
(* sentences, and the sentences are packed into overlapping chunks.        *)
(*                                                                         *)
(* Of a text only the lengths of its sentences are kept, and of a value    *)
(* what the code asks about it.  The settings and the row are chosen at    *)
(* the start; each turn of the packing loop is a step.                     *)
(***************************************************************************)
EXTENDS Integers, Sequences

CONSTANTS
    Columns,     \* columns the table may have, and names of related tables
    Structural,  \* metadata keys of lineage and access
    Texts,       \* texts, as the lengths of their sentences
    Sizes,       \* values of chunk_size
    Overlaps     \* values of chunk_overlap

ASSUME TextsAssumption == Texts \subseteq Seq(Nat \ {0})
ASSUME SettingsAssumption == Sizes \subseteq Int /\ Overlaps \subseteq Int

VARIABLES
    pc,        \* where the record is
    row,       \* the row read: [its columns -> what its values are]
    related,   \* related rows: [tables of the relations -> "rows" or "empty"]
    config,    \* primary_key, exclude_columns and the names in the template
    size,      \* chunk_size
    overlap,   \* chunk_overlap
    columns,   \* SourceRecord.columns
    text,      \* the sentences of the normalized text, by their lengths
    next,      \* the sentence of the next turn
    current,   \* the chunk being packed
    chunks     \* the chunks packed

vars == <<pc, row, related, config, size, overlap, columns, text, next,
          current, chunks>>

-----------------------------------------------------------------------------
\* A string, number or truth value; a value of another type (a date, a
\* decimal, bytes); NULL.
Values == {"scalar", "other", "null"}

NoTemplate == {"no template"}

\* A chunk: the characters carried over from the one before, the sentences
\* first..last, and its length.
Chunk == [carried : Nat, first : Nat \ {0}, last : Nat \ {0},
          length : Nat \ {0}]

NoChunk == [carried |-> 0, first |-> 0, last |-> 0, length |-> 0]

\* columns[relation.table] = rows: a column of that name is replaced.
Extracted(kept) ==
    [c \in kept \cup DOMAIN related |->
        IF c \in DOMAIN related THEN related[c] ELSE row[c]]

\* _format_value is None for NULL and for an empty list.
Spoken(c) == columns[c] \notin {"null", "empty"}

\* scalar_attributes: NULLs are among them, lists are not.
Attributes == {c \in DOMAIN columns : columns[c] \in {"scalar", "null"}}

\* Faulty: no type check on the attributes.
MetadataOfAll == [key \in Structural \cup DOMAIN columns |->
                    IF key \in DOMAIN columns THEN "column" ELSE "record"]

\* Where each metadata entry of the record's chunks comes from; the attributes
\* are written over the structural keys.
Metadata == [key \in Structural \cup Attributes |->
                IF key \in Attributes THEN "column" ELSE "record"]

-----------------------------------------------------------------------------
Init ==
    /\ pc = "extract"
    /\ \E own \in SUBSET Columns : row \in [own -> Values]
    /\ \E names \in SUBSET Columns : related \in [names -> {"rows", "empty"}]
    /\ config \in [primary_key : Columns, exclude : SUBSET Columns,
                   template : {NoTemplate} \cup SUBSET Columns]
    /\ size \in Sizes
    /\ overlap \in Overlaps
    /\ columns = [c \in {} |-> "null"]
    /\ text = <<>>
    /\ next = 1
    /\ current = NoChunk
    /\ chunks = <<>>

\* extract_table, for one row; a primary key that is no column of the row is
\* an error.
Extract ==
    /\ pc = "extract"
    /\ config.primary_key \in DOMAIN row
    /\ columns' = Extracted(DOMAIN row \ config.exclude)
    /\ pc' = "normalize"
    /\ UNCHANGED <<row, related, config, size, overlap, text, next, current,
                   chunks>>

\* The default text has a line for each value there is.
NormalizeDefault ==
    /\ pc = "normalize"
    /\ config.template = NoTemplate
    /\ text' \in {t \in Texts : t = <<>> <=> \A c \in DOMAIN columns : ~Spoken(c)}
    /\ pc' = "pack"
    /\ UNCHANGED <<row, related, config, size, overlap, columns, next,
                   current, chunks>>

\* A template may come out as any text, blank ones included; a name that is
\* no column, an excluded one for instance, is an error.
NormalizeTemplate ==
    /\ pc = "normalize"
    /\ config.template \in SUBSET DOMAIN columns
    /\ text' \in Texts
    /\ pc' = "pack"
    /\ UNCHANGED <<row, related, config, size, overlap, columns, next,
                   current, chunks>>

\* A missing key, an unknown column or a template that cannot be filled in
\* with these values ends the record, and the run with it; so does a relation,
\* when its local_key is no column of the row (KeyError, extractor.py) or the
\* related table cannot be read (SourceDBError).
Raise ==
    /\ \/ /\ pc = "extract"
          /\ config.primary_key \notin DOMAIN row \/ DOMAIN related # {}
       \/ pc = "normalize" /\ config.template # NoTemplate
    /\ pc' = "raised"
    /\ UNCHANGED <<row, related, config, size, overlap, columns, text, next,
                   current, chunks>>

-----------------------------------------------------------------------------
(* chunk_text.                                                             *)

\* f"{current} {sentence}" of two texts without blanks at their ends
Joined(a, b) == IF a = 0 THEN b ELSE a + 1 + b

\* What strip() may leave of current[-chunk_overlap:]: the tail may begin with
\* blanks unless it is the whole chunk, and never ends with one.
Tails(c) ==
    IF overlap <= 0 THEN {0}
    ELSE IF overlap >= c.length THEN {c.length}
    ELSE 1..overlap

\* Faulty: the chunk is measured before the sentence is added.
FitsBefore == current.length <= size

\* The sentence does not make the chunk longer than chunk_size.
Fits == Joined(current.length, text[next]) <= size

\* A turn of the loop whose sentence begins the first chunk or goes into the
\* current one.
AddSentence ==
    /\ pc = "pack"
    /\ next <= Len(text)
    /\ current = NoChunk \/ Fits
    /\ current' = [carried |-> current.carried,
                   first |-> IF current = NoChunk THEN next ELSE current.first,
                   last |-> next,
                   length |-> Joined(current.length, text[next])]
    /\ next' = next + 1
    /\ UNCHANGED <<pc, row, related, config, size, overlap, columns, text,
                   chunks>>

\* A turn whose sentence no longer fits: the current chunk is complete, and
\* its tail and the sentence begin the next one.
CloseChunk ==
    /\ pc = "pack"
    /\ next <= Len(text)
    /\ current # NoChunk /\ ~Fits
    /\ chunks' = Append(chunks, current)
    /\ \E tail \in Tails(current) :
            current' = [carried |-> tail, first |-> next, last |-> next,
                        length |-> Joined(tail, text[next])]
    /\ next' = next + 1
    /\ UNCHANGED <<pc, row, related, config, size, overlap, columns, text>>

\* Faulty: the chunk in hand is forgotten.
FinishWithoutLast ==
    /\ pc = "pack"
    /\ next > Len(text)
    /\ current' = NoChunk
    /\ pc' = "done"
    /\ UNCHANGED <<row, related, config, size, overlap, columns, text, next,
                   chunks>>

\* After the loop.
Finish ==
    /\ pc = "pack"
    /\ next > Len(text)
    /\ chunks' = IF current = NoChunk THEN chunks ELSE Append(chunks, current)
    /\ current' = NoChunk
    /\ pc' = "done"
    /\ UNCHANGED <<row, related, config, size, overlap, columns, text, next>>

Next ==
    \/ Extract \/ NormalizeDefault \/ NormalizeTemplate \/ Raise
    \/ AddSentence \/ CloseChunk \/ Finish

Spec == Init /\ [][Next]_vars

-----------------------------------------------------------------------------
(* Properties.                                                             *)

\* Types.  A record that is being packed has at most one chunk for each
\* sentence seen so far, so that a chunk's number stays below the text's.
TypeOK ==
    /\ pc \in {"extract", "normalize", "pack", "done", "raised"}
    /\ size \in Sizes /\ overlap \in Overlaps
    /\ text \in Seq(Nat \ {0})
    /\ next \in 1..(Len(text) + 1)
    /\ current \in Chunk \cup {NoChunk}
    /\ chunks \in Seq(Chunk)
    /\ Len(chunks) < next

\* Chunks from..to, in order, the one in hand included.
Packed == IF current = NoChunk THEN chunks ELSE Append(chunks, current)

\* No sentence of a record is lost, and none is packed twice: each chunk has
\* sentences of its own, begins with the one after the last of the chunk
\* before, and when the loop is over the last one ends with the text.  A text
\* with a sentence has a chunk.
SentencesKept ==
    /\ \A k \in DOMAIN Packed :
            /\ Packed[k].first <= Packed[k].last
            /\ Packed[k].first = IF k = 1 THEN 1 ELSE Packed[k - 1].last + 1
    /\ IF Packed = <<>> THEN next = 1 ELSE Packed[Len(Packed)].last = next - 1
    /\ pc = "done" => current = NoChunk /\ next = Len(text) + 1

\* Chunks are as long as they may be, and no longer: one above chunk_size is a
\* single sentence of its own, at most the overlap and a blank longer than that
\* sentence; and the first sentence of a chunk would have taken the chunk
\* before beyond chunk_size ("should not balloon far past the configured
\* size").
PackedTight ==
    /\ \A k \in DOMAIN Packed :
            LET c == Packed[k]
            IN c.length > size =>
                /\ c.first = c.last
                /\ c.length <= text[c.first] + IF overlap > 0 THEN overlap + 1
                                                              ELSE 0
    /\ \A k \in DOMAIN Packed \ {1} :
            Joined(Packed[k - 1].length, text[Packed[k].first]) > size

\* The chunks of a record name its table, its key and its access tags, which is
\* what a reset of the table and the filter on roles look for, unless a column
\* of the row itself has such a name and has not been excluded.  A related
\* table of that name does no harm, and an excluded column is in no metadata.
NamesTheirRecord ==
    pc \in {"pack", "done"} =>
        /\ \A key \in Structural :
                key \notin DOMAIN row \ config.exclude
                    => Metadata[key] = "record"
        /\ DOMAIN Metadata \cap config.exclude \subseteq Structural

=============================================================================
