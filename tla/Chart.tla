-------------------------------- MODULE Chart --------------------------------
(***************************************************************************)
(* What one answer of Yahoo's chart endpoint becomes: ingest.py's          *)
(* quote_from_chart, quality.finite_number and the number checks of        *)
(* lake.quote_records_with_report, on every shape and value JSON allows.   *)
(* A JSON value is known by its kind and a float by its sign and order of  *)
(* magnitude, which decide what is finite.  The fetch loop around this is  *)
(* in Quotes, which takes an unusable answer and a failed one as given.    *)
(***************************************************************************)
EXTENDS Integers

CONSTANTS Exponents,  \* the orders of magnitude a value in an answer may have
          MaxExp      \* that of the greatest float

ASSUME ExponentsAssumption == MaxExp \in Nat /\ Exponents \subseteq (-MaxExp)..MaxExp

VARIABLES
    body,    \* the answer: how far it has the shape of a chart, and its numbers
    result,  \* what fetch_quote_raw makes of it
    record   \* what the lake normaliser makes of that

vars == <<body, result, record>>

-----------------------------------------------------------------------------
(* Values                                                                  *)

Zero == [sign |-> 0, exp |-> 0]
Numbers == {Zero} \cup [sign : {-1, 1}, exp : Exponents]
Missing == [kind |-> "null"]

\* Numbers and numerals; absent or null, true and false, NaN and infinities (also
\* spelled as text), integers beyond float range, other text, lists and objects.
Values == [kind : {"number", "numeral"}, number : Numbers]
            \cup [kind : {"null", "bool", "nonfinite", "huge", "text", "container"}]

None == [kind |-> "None"]
Blank == [kind |-> "blank"]

FiniteNumber(v) == IF v.kind \in {"number", "numeral"} THEN v.number ELSE None

Positive(n) == n # None /\ n.sign = 1

\* The shapes that fail one test of quote_from_chart each; "chart" has a meta.
Shapes == {"not json", "not an object", "chart null", "chart an empty list", "chart a list",
           "result null", "result an object", "result empty", "result of text", "meta null",
           "chart"}

Bodies ==
    [shape : Shapes \ {"chart"}]
        \cup [shape : {"chart"}, price : Values, chartPreviousClose : Values,
              previousClose : Values]

-----------------------------------------------------------------------------
(* fetch_quote_raw and quote_from_chart                                    *)

\* The shapes whose test raises: resp.json(), and `.get` on a list; an empty list is
\* replaced by an empty object first (`chart or {}`).
Raising == {"not json", "chart a list"}

\* Faulty variant: a chartPreviousClose that is there hides previousClose.
PrevCloseIfAbsent(b) ==
    LET n == FiniteNumber(IF b.chartPreviousClose # Missing THEN b.chartPreviousClose
                                                            ELSE b.previousClose)
    IN  IF Positive(n) THEN n ELSE Zero

\* The first usable of the two fields, else 0.
PrevClose(b) ==
    LET first == FiniteNumber(b.chartPreviousClose)
        second == FiniteNumber(b.previousClose)
    IN  IF Positive(first) THEN first
        ELSE IF Positive(second) THEN second
        ELSE Zero

LargerExp(m, n) == IF m.exp >= n.exp THEN m.exp ELSE n.exp

\* What two positive prices may differ by: prices of the same magnitude are equal or
\* differ by some of it.
Differences(p, q) ==
    IF p.exp = q.exp
    THEN {Zero} \cup [sign : {-1, 1}, exp : { e \in Exponents : e <= p.exp }]
    ELSE {[sign |-> IF p.exp > q.exp THEN 1 ELSE -1, exp |-> LargerExp(p, q)]}

\* change / prev_close * 100; a float beyond MaxExp is infinite.
Percentage(change, q) ==
    IF change = Zero THEN Zero ELSE [sign |-> change.sign, exp |-> change.exp - q.exp + 2]

IsFinite(n) == n.exp <= MaxExp

NoChange == [change |-> Zero, change_pct |-> Zero]
ChangeBy(d, q) == [change |-> d, change_pct |-> Percentage(d, q)]

\* Faulty variant: the percentage is not checked.
ChangesUnchecked(p, q) ==
    IF q = Zero THEN {NoChange} ELSE { ChangeBy(d, q) : d \in Differences(p, q) }

Changes(p, q) ==
    IF q = Zero THEN {NoChange}
    ELSE { IF IsFinite(Percentage(d, q)) THEN ChangeBy(d, q) ELSE NoChange :
             d \in Differences(p, q) }

Raises == [outcome |-> "raises"]
NoQuote == [outcome |-> "{}"]

QuoteOf(p, prev, c) ==
    [outcome |-> "quote", price |-> p, prev_close |-> prev,
     change |-> c.change, change_pct |-> c.change_pct]

Quotes(b) ==
    LET p == FiniteNumber(b.price)
    IN  { QuoteOf(p, PrevClose(b), c) : c \in Changes(p, PrevClose(b)) }

\* Faulty variant: any finite price will do.
QuoteOfAnyPrice(b) ==
    IF b.shape \in Raising THEN {Raises}
    ELSE IF b.shape # "chart" \/ FiniteNumber(b.price) = None THEN {NoQuote}
    ELSE Quotes(b)

\* What the function may give of an answer.
QuoteFromChart(b) ==
    IF b.shape \in Raising THEN {Raises}
    ELSE IF b.shape # "chart" \/ ~ Positive(FiniteNumber(b.price)) THEN {NoQuote}
    ELSE Quotes(b)

-----------------------------------------------------------------------------
(* lake.quote_records_with_report, for the quote's numbers                 *)

OptionalNumber(n) == IF IsFinite(n) THEN n ELSE Blank

Accepts(q) == IsFinite(q.price) /\ q.price.sign = 1

RecordOf(q) ==
    IF ~ Accepts(q) THEN [outcome |-> "invalid_price"]
    ELSE [outcome |-> "record", price |-> q.price,
          prev_close |-> OptionalNumber(q.prev_close), change |-> OptionalNumber(q.change),
          change_pct |-> OptionalNumber(q.change_pct)]

-----------------------------------------------------------------------------
Pending == [outcome |-> "pending"]
Fields == {"price", "prev_close", "change", "change_pct"}

TypeOK ==
    /\ body \in Bodies
    /\ result.outcome \in {"pending", "raises", "{}", "quote"}
    /\ result.outcome = "quote" => \A f \in Fields : result[f].exp \in Int /\ IsFinite(result[f])
    /\ record.outcome \in {"pending", "invalid_price", "record"}

Init == body \in Bodies /\ result = Pending /\ record = Pending

FetchQuoteRaw ==
    /\ result = Pending
    /\ result' \in QuoteFromChart(body)
    /\ UNCHANGED <<body, record>>

Normalise ==
    /\ result.outcome = "quote" /\ record = Pending
    /\ record' = RecordOf(result)
    /\ UNCHANGED <<body, result>>

Next == FetchQuoteRaw \/ Normalise

Spec == Init /\ [][Next]_vars

-----------------------------------------------------------------------------
(* Properties                                                              *)

\* README.md:166-168: no quote of the live path is dropped, and none of its
\* numbers blanked, by the lake normaliser, however extreme the answer's numbers:
\* what the CSV projection shows (the quote) is what Bronze stores (the record).
BronzeKeepsTheQuote ==
    record # Pending =>
        /\ record.outcome = "record"
        /\ \A f \in Fields : record[f] = result[f]

\* ingest.py:138, "A present-but-null chartPreviousClose used to hide
\* previousClose": a quote lacks a previous close only if neither field is usable,
\* and a change is never reported against a previous close that is not there.
PreviousCloseFound ==
    result.outcome = "quote" =>
        /\ result.prev_close = Zero <=>
             ~ \E v \in {body.chartPreviousClose, body.previousClose} : Positive(FiniteNumber(v))
        /\ result.prev_close = Zero => result.change = Zero /\ result.change_pct = Zero
=============================================================================
