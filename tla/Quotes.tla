------------------------------- MODULE Quotes -------------------------------
(***************************************************************************)
(* What becomes of the quotes inside one run, loop by loop: main's list of *)
(* symbols, the fetch loop that collects the landing payload and the       *)
(* quotes (ingest.py), clean_quotes, which picks the rows of the CSV, and  *)
(* lake.quote_records_with_report, which picks the Bronze records, first   *)
(* for clean_quotes and again for the lake.  One action is one pass of a   *)
(* loop.  A quote is known by the response it was read from.               *)
(***************************************************************************)
EXTENDS Naturals, Sequences, FiniteSets, Functions

CONSTANTS Spellings,   \* symbols as they are typed, and their upper-case forms
          Upper,       \* [Spellings -> Spellings]: strip and upper-case
          Blank,       \* the empty symbol
          Entries,     \* which callers: "main", "scheduler", "direct"
          MaxQuotes    \* bound: symbols asked for, or quotes passed directly

ASSUME UpperAssumption ==
    /\ Upper \in [Spellings -> Spellings] /\ Blank \in Spellings /\ Upper[Blank] = Blank
    /\ \A s \in Spellings : Upper[Upper[s]] = Upper[s]
ASSUME EntriesAssumption == Entries \subseteq {"main", "scheduler", "direct"}
ASSUME MaxQuotesAssumption == MaxQuotes \in Nat

VARIABLES
    entry,      \* who called
    args,       \* the symbols as typed, configured, or borne by the quotes passed
    symbols,    \* the symbols run_live_ingest was given
    responses,  \* raw_by_symbol: the response whose bytes each symbol lands
    fetched,    \* the quotes fetched (or passed to clean_quotes directly)
    caller,     \* of quote_records_with_report: clean_quotes, then the lake
    normalised, \* its records before dedupe_by_key
    records,    \* its records after it, in the end the Bronze records
    rejected,   \* what clean_quotes reports as dropped
    accepted,   \* the ids clean_quotes has yet to find a quote for
    kept,       \* the rows of the CSV projections
    stage,      \* the loop that is running
    next        \* and its position

vars == <<entry, args, symbols, responses, fetched, caller, normalised, records,
          rejected, accepted, kept, stage, next>>
fetching == <<entry, args, symbols, responses, fetched>>
cleaning == <<rejected, accepted, kept>>
normalising == <<caller, normalised, records>>

Response == 1..MaxQuotes
Quote == [symbol : Spellings, priced : BOOLEAN, response : Response]
Record == [id : Spellings, response : Response]
Reason == {"missing_symbol", "invalid_price", "duplicate_id"}
\* The report names the id and the reason; the response tells whose it is.
Rejection == [id : Spellings, reason : Reason, response : Response]
NotLanded == 0

TypeOK ==
    /\ entry \in Entries
    /\ args \in Seq(Spellings) /\ symbols \in Seq(Spellings)
    /\ responses \in [Spellings -> Response \cup {NotLanded}]
    /\ fetched \in Seq(Quote) /\ kept \in Seq(Quote)
    /\ caller \in {"clean_quotes", "lake"}
    /\ normalised \in Seq(Record) /\ records \in Seq(Record)
    /\ rejected \in Seq(Rejection)
    /\ accepted \subseteq Spellings
    /\ stage \in {"args", "fetch", "normalise", "dedupe", "pick", "done"}
    /\ next \in Nat \ {0}

Id(q) == Upper[q.symbol]
Acceptable(q) == Id(q) # Blank /\ q.priced
RecordOf(q) == [id |-> Id(q), response |-> q.response]
IdsOf(rs) == { rs[i].id : i \in DOMAIN rs }

-----------------------------------------------------------------------------
\* main cleans its arguments, the scheduler's StockPriceScraper passes what it
\* was given, and a direct caller of clean_quotes brings any quotes.
Init ==
    /\ entry \in Entries
    /\ \E n \in 0..MaxQuotes : args \in [1..n -> Spellings]
    /\ responses = [s \in Spellings |-> NotLanded]
    /\ \/ /\ entry = "main" /\ stage = "args" /\ symbols = <<>> /\ fetched = <<>>
       \/ /\ entry = "scheduler" /\ stage = "fetch" /\ args # <<>> /\ symbols = args
          /\ fetched = <<>>
       \/ /\ entry = "direct" /\ stage = "normalise" /\ symbols = <<>>
          /\ \E priced \in [DOMAIN args -> BOOLEAN] :
               fetched = [i \in DOMAIN args |->
                            [symbol |-> args[i], priced |-> priced[i], response |-> i]]
    /\ caller = "clean_quotes"
    /\ normalised = <<>> /\ records = <<>> /\ rejected = <<>> /\ kept = <<>>
    /\ accepted = {}
    /\ next = 1

\* One pass of a loop over seq; a loop that has come to its end; the next one.
Pass(loop, seq) == /\ stage = loop /\ next <= Len(seq) /\ next' = next + 1
                   /\ UNCHANGED stage
Past(loop, seq) == stage = loop /\ next > Len(seq)
Goto(loop) == stage' = loop /\ next' = 1

-----------------------------------------------------------------------------
(* dict.fromkeys(s.strip().upper() for s in ... if s.strip())              *)

\* Faulty variant: the symbols are a list.
TakeEveryArg ==
    /\ Pass("args", args)
    /\ LET s == Upper[args[next]]
       IN  symbols' = IF s = Blank THEN symbols ELSE Append(symbols, s)
    /\ UNCHANGED <<entry, args, responses, fetched, normalising, cleaning>>

TakeArg ==
    /\ Pass("args", args)
    /\ LET s == Upper[args[next]]
       IN  symbols' = IF s \in {Blank} \cup Range(symbols) THEN symbols ELSE Append(symbols, s)
    /\ UNCHANGED <<entry, args, responses, fetched, normalising, cleaning>>

\* No symbol at all is a usage error.
EndArgs ==
    /\ Past("args", args)
    /\ Goto(IF symbols = <<>> THEN "done" ELSE "fetch")
    /\ UNCHANGED <<fetching, normalising, cleaning>>

-----------------------------------------------------------------------------
(* fetch_quotes_raw                                                        *)

Fetch == Pass("fetch", symbols) /\ UNCHANGED <<entry, args, symbols, normalising, cleaning>>

\* Faulty variant: the quote is filed under the response to come.
FetchUsableOffByOne ==
    /\ Fetch
    /\ responses' = [responses EXCEPT ![symbols[next]] = next + 1]
    /\ fetched' = Append(fetched, [symbol |-> symbols[next], priced |-> TRUE, response |-> next + 1])

\* raw_by_symbol is a dict: a symbol asked for twice keeps the later response.
\* Its bytes land as text, decoded with errors="replace".
FetchUsable ==
    /\ Fetch
    /\ responses' = [responses EXCEPT ![symbols[next]] = next]
    /\ fetched' = Append(fetched, [symbol |-> symbols[next], priced |-> TRUE, response |-> next])

\* The body lands, but quote_from_chart finds no usable price in it.
FetchUnusable ==
    /\ Fetch
    /\ responses' = [responses EXCEPT ![symbols[next]] = next]
    /\ UNCHANGED fetched

\* Transport or HTTP error, or a body that makes fetch_quote_raw raise.
FetchFails == Fetch /\ UNCHANGED <<responses, fetched>>

EndFetch ==
    /\ Past("fetch", symbols) /\ Goto("normalise")
    /\ UNCHANGED <<fetching, normalising, cleaning>>

-----------------------------------------------------------------------------
(* quote_records_with_report, and dedupe_by_key at its end                 *)

quotes == IF caller = "clean_quotes" THEN fetched ELSE kept

\* quote_records_from_api, the lake's way in, drops the report.
Reject(r, reason) ==
    rejected' = IF caller = "clean_quotes"
                THEN Append(rejected, [id |-> r.id, reason |-> reason, response |-> r.response])
                ELSE rejected

Normalise ==
    /\ Pass("normalise", quotes)
    /\ LET q == quotes[next] IN
         \/ /\ Acceptable(q)
            /\ normalised' = Append(normalised, RecordOf(q))
            /\ UNCHANGED rejected
         \/ /\ ~ Acceptable(q)
            /\ Reject(RecordOf(q), IF Id(q) = Blank THEN "missing_symbol" ELSE "invalid_price")
            /\ UNCHANGED normalised
    /\ UNCHANGED <<fetching, caller, records, accepted, kept>>

EndNormalise ==
    /\ Past("normalise", quotes) /\ Goto("dedupe")
    /\ UNCHANGED <<fetching, normalising, cleaning>>

\* Faulty variant: the duplicates are not reported.
DedupeSilently ==
    /\ Pass("dedupe", normalised)
    /\ LET r == normalised[next]
       IN  records' = IF r.id \in IdsOf(records) THEN records ELSE Append(records, r)
    /\ UNCHANGED <<fetching, caller, normalised, cleaning>>

Dedupe ==
    /\ Pass("dedupe", normalised)
    /\ LET r == normalised[next] IN
         \/ /\ r.id \notin IdsOf(records)
            /\ records' = Append(records, r)
            /\ UNCHANGED rejected
         \/ /\ r.id \in IdsOf(records)
            /\ Reject(r, "duplicate_id")
            /\ UNCHANGED records
    /\ UNCHANGED <<fetching, caller, normalised, accepted, kept>>

\* clean_quotes goes on with the ids; the lake stores the records.
EndDedupe ==
    /\ Past("dedupe", normalised)
    /\ \/ /\ caller = "clean_quotes" /\ accepted' = IdsOf(records) /\ Goto("pick")
       \/ /\ caller = "lake" /\ UNCHANGED accepted /\ Goto("done")
    /\ UNCHANGED <<fetching, normalising, rejected, kept>>

-----------------------------------------------------------------------------
(* The second loop of clean_quotes                                         *)

\* Faulty variants: accepted.discard forgotten; the symbol compared as typed.
PickWithoutDiscard ==
    /\ Pass("pick", fetched)
    /\ kept' = IF Id(fetched[next]) \in accepted THEN Append(kept, fetched[next]) ELSE kept
    /\ UNCHANGED <<fetching, normalising, rejected, accepted>>
PickAsTyped ==
    /\ Pass("pick", fetched)
    /\ LET q == fetched[next] IN
         /\ kept' = IF q.symbol \in accepted THEN Append(kept, q) ELSE kept
         /\ accepted' = accepted \ {q.symbol}
    /\ UNCHANGED <<fetching, normalising, rejected>>

\* Each accepted id is used up by the first quote that bears it.
Pick ==
    /\ Pass("pick", fetched)
    /\ LET q == fetched[next] IN
         /\ kept' = IF Id(q) \in accepted THEN Append(kept, q) ELSE kept
         /\ accepted' = accepted \ {Id(q)}
    /\ UNCHANGED <<fetching, normalising, rejected>>

\* run_live_ingest raises when no quote is left; otherwise _lake_ingest_prices
\* (and _lake_ingest_history again) normalises what was kept.
EndPick ==
    /\ Past("pick", fetched)
    /\ normalised' = <<>> /\ records' = <<>>
    /\ caller' = "lake"
    /\ Goto(IF kept = <<>> THEN "done" ELSE "normalise")
    /\ UNCHANGED <<fetching, cleaning>>

Next == \/ TakeArg \/ EndArgs
        \/ FetchUsable \/ FetchUnusable \/ FetchFails \/ EndFetch
        \/ Normalise \/ EndNormalise \/ Dedupe \/ EndDedupe
        \/ Pick \/ EndPick

Spec == Init /\ [][Next]_vars

-----------------------------------------------------------------------------
(* Properties                                                              *)

\* clean_quotes has returned.
Cleaned == caller = "lake"

\* README.md:168, "The CSV projection keeps exactly the quotes Bronze accepted"
\* (ingest.py:356): row for row, the CSV and Bronze hold the same quotes.
CsvAgreesWithBronze ==
    stage = "done" => records = [i \in DOMAIN kept |-> RecordOf(kept[i])]

\* So it is for quotes that run_live_ingest fetched.
LiveCsvAgreesWithBronze == entry # "direct" => CsvAgreesWithBronze

\* A symbol with any acceptable quote is kept once, by its first acceptable
\* quote, however it is spelled and however often it comes, and the rows are in
\* the order the quotes came.
FirstAcceptableKept ==
    LET ok(i) == Acceptable(fetched[i])
        first(i) == ok(i) /\ \A j \in 1..(i - 1) : ~ (ok(j) /\ Id(fetched[j]) = Id(fetched[i]))
    IN  entry # "direct" /\ Cleaned =>
            /\ Range(kept) = { fetched[i] : i \in { j \in DOMAIN fetched : first(j) } }
            /\ \A i, j \in DOMAIN kept : i < j => kept[i].response < kept[j].response

Reported(q) == \E j \in DOMAIN rejected : rejected[j].response = q.response

\* ingest.py:391: each quote that was fetched is a row or is reported as rejected,
\* never silently dropped and never both, however symbols repeat.  Whoever calls,
\* the rows and the rejections add up to the quotes; which of them a direct
\* caller's are is another matter (see CsvAgreesWithBronze).
EveryQuoteAccountedFor ==
    Cleaned =>
        /\ Len(kept) + Len(rejected) = Len(fetched)
        /\ entry # "direct" =>
             \A i \in DOMAIN fetched : fetched[i] \in Range(kept) <=> ~ Reported(fetched[i])

\* README.md:8, "exact API bytes -> landing -> Bronze", and lake.py:297, "Replay
\* exact landing payload for lineage proof": the landing payload holds, under the
\* symbol of each Bronze record, the response that record was read from and no
\* other.  (That its text is the exact bytes holds of UTF-8 bodies only.)
RecordsReplayFromLanding ==
    entry # "direct" =>
        \A i \in DOMAIN kept : responses[kept[i].symbol] = kept[i].response

\* Through the command line, whose symbols are upper-cased and made unique,
\* every record does replay from the landing payload.
MainReplaysFromLanding == entry = "main" => RecordsReplayFromLanding
=============================================================================
