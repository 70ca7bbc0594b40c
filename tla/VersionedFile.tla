--------------------------- MODULE VersionedFile ---------------------------
(***************************************************************************)
(* What the docstrings of fsutil.py promise of a projection file, with no  *)
(* temporary files, calls or program counters: the file always holds one   *)
(* of the complete texts some call published ("the file is either the old  *)
(* or the new version"), and a power loss can only bring an earlier one    *)
(* back.  It promises nothing once fixtures are seeded, by other means.    *)
(* AtomicFile implements it.                                               *)
(***************************************************************************)
EXTENDS CsvText

VARIABLES projection,  \* which of the two CSV projections this is
          text,        \* what a reader of the file sees
          versions,    \* every complete text published so far
          seeded       \* has seed_fixtures started to write it?

vars == <<projection, text, versions, seeded>>

Prices == "stock_prices.csv"
History == "stock_history.csv"

Before == { Empty, [lines |-> <<Whole(Header), Whole(Old)>>, ended |-> TRUE] }

Init == /\ projection \in {Prices, History}
        /\ text \in Before
        /\ versions = {text}
        /\ seeded = FALSE

\* The prices are replaced; the history extends a text that was published,
\* not necessarily the latest one.
NewVersions(w) ==
    IF projection = Prices THEN {Replacement(w)}
    ELSE { Extension(v, w) : v \in versions }

Publish(w) == /\ text' \in NewVersions(w)
              /\ versions' = versions \cup {text'}
              /\ UNCHANGED <<projection, seeded>>

Revert == /\ text' \in versions
          /\ UNCHANGED <<projection, versions, seeded>>

\* Whatever happens to the text from then on.
Seed == seeded' = TRUE /\ UNCHANGED projection

Next == \/ Seed
        \/ ~ seeded /\ (Revert \/ \E w \in Writers : Publish(w))

Spec == Init /\ [][Next]_vars
=============================================================================
