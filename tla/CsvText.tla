------------------------------ MODULE CsvText ------------------------------
(***************************************************************************)
(* The text of a CSV projection (data/stock_prices.csv, stock_history.csv) *)
(* as fsutil.py builds, appends to and reads it back: a sequence of lines. *)
(* A batch of rows written by one call is one line, named after the caller *)
(* that wrote it; quoting and the two line terminators are left out, since *)
(* csv.DictReader reads both alike.                                        *)
(***************************************************************************)
EXTENDS Sequences, Naturals

CONSTANTS Writers,  \* callers that write the file, each one batch of rows
          Header,   \* names the header line
          Old       \* names the batch of rows a file may hold beforehand

ASSUME HeaderAssumption == Header \notin Writers /\ Old \notin Writers \cup {Header}

\* A line cut short by an interrupted write is not whole.
Line == [of : Writers \cup {Header, Old}, whole : BOOLEAN]

\* "ended" says the text ends with a newline.  A missing file reads as "".
File == [lines : Seq(Line), ended : BOOLEAN]

Whole(x) == [of |-> x, whole |-> TRUE]
Torn(line) == [of |-> line.of, whole |-> FALSE]
Empty == [lines |-> <<>>, ended |-> TRUE]

\* The lines csv_text emits for one caller's rows, with or without a header.
csv_text(w, header) ==
    IF header THEN <<Whole(Header), Whole(w)>> ELSE <<Whole(w)>>

\* atomic_write_csv: the whole file is this caller's rows.
Replacement(w) == [lines |-> csv_text(w, TRUE), ended |-> TRUE]

\* A faulty append: the header is repeated whatever the file holds.
ExtensionWithHeaderAgain(existing, w) ==
    [lines |-> existing.lines \o csv_text(w, TRUE), ended |-> TRUE]

\* atomic_append_csv: the existing text, its last line ended, then the rows;
\* the header only when there was no text.
Extension(existing, w) ==
    [lines |-> existing.lines \o csv_text(w, existing.lines = <<>>), ended |-> TRUE]

\* The first k lines of a text, the last of them complete, complete but for
\* its newline, or cut short.
CutAt(f, k) ==
    LET first == SubSeq(f.lines, 1, k)
    IN  { [lines |-> first, ended |-> TRUE],
          [lines |-> first, ended |-> FALSE],
          [lines |-> Append(SubSeq(f.lines, 1, k - 1), Torn(f.lines[k])),
           ended |-> FALSE] }

\* What an interrupted write of text f may leave.
Prefixes(f) == {Empty} \cup UNION { CutAt(f, k) : k \in 1..Len(f.lines) }

RowsIn(f) == { f.lines[i].of : i \in DOMAIN f.lines } \ {Header}
=============================================================================
