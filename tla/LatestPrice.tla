----------------------------- MODULE LatestPrice -----------------------------
(***************************************************************************)
(* Event times, and the price they make the latest.  A Bronze row carries  *)
(* its quote's market time, or the time of the normalisation when Yahoo    *)
(* gave none (lake.py:141-164); readers take the row with the greatest     *)
(* event time as a symbol's latest.  A live run normalises its quotes      *)
(* anew for each dataset (ingest.py:300, 327); seed_lake_from_quotes does  *)
(* so once for both (store.py:274).  What a batch looks like on its way    *)
(* into the lake is LakeIngest's subject: here it is committed in a step.  *)
(***************************************************************************)
EXTENDS Naturals

CONSTANTS Runs,         \* the ingest commands
          LakeSeeders,  \* those that are calls of seed_lake_from_quotes
          Symbols,
          MaxTime,      \* bound on the clock
          NoTime,       \* a quote without a usable market time
          NoQuote       \* no quote for the symbol

ASSUME SeedersAssumption == LakeSeeders \subseteq Runs
ASSUME TimeAssumption == MaxTime \in Nat
ASSUME MarkAssumption == NoTime \notin Nat /\ NoQuote \notin Nat /\ NoTime # NoQuote

VARIABLES
    clock,    \* the time, as utc_now_iso tells it
    pc,       \* where each run is
    dataset,  \* the dataset it is writing
    market,   \* the market time of each quote it fetched
    fetched,  \* when it fetched them
    known,    \* the runs whose prices were committed by then
    records,  \* its records: the event time of each symbol's
    rows      \* the Bronze rows that are committed

vars == <<clock, pc, dataset, market, fetched, known, records, rows>>

Prices == "stock_prices"
History == "stock_history"
Datasets == {Prices, History}
Time == 0..MaxTime

TypeOK ==
    /\ clock \in Time
    /\ pc \in [Runs -> {"fetch", "normalise", "commit", "done"}]
    /\ dataset \in [Runs -> Datasets]
    /\ market \in [Runs -> [Symbols -> Time \cup {NoTime, NoQuote}]]
    /\ fetched \in [Runs -> Time]
    /\ known \in [Runs -> SUBSET Runs]
    /\ records \in [Runs -> [Symbols -> Time \cup {NoQuote}]]
    /\ rows \subseteq [run : Runs, dataset : Datasets, symbol : Symbols, event : Time]

Init ==
    /\ clock = 0
    /\ pc = [r \in Runs |-> "fetch"]
    /\ dataset = [r \in Runs |-> Prices]
    /\ market = [r \in Runs |-> [s \in Symbols |-> NoQuote]]
    /\ fetched = [r \in Runs |-> 0]
    /\ known = [r \in Runs |-> {}]
    /\ records = [r \in Runs |-> [s \in Symbols |-> NoQuote]]
    /\ rows = {}

Goto(r, step) == pc' = [pc EXCEPT ![r] = step]

Tick ==
    /\ clock < MaxTime
    /\ clock' = clock + 1
    /\ UNCHANGED <<pc, dataset, market, fetched, known, records, rows>>

\* The requests of a run are one step.  A market time may be long past (the market
\* is closed, the answer was cached), but is taken not to be ahead of the clock:
\* quote_from_chart does not check it.
Fetch(r) ==
    /\ pc[r] = "fetch"
    /\ \E m \in [Symbols -> 0..clock \cup {NoTime, NoQuote}] :
         market' = [market EXCEPT ![r] = m]
    /\ fetched' = [fetched EXCEPT ![r] = clock]
    /\ known' = [known EXCEPT ![r] = { x.run : x \in { y \in rows : y.dataset = Prices } }]
    /\ Goto(r, "normalise")
    /\ UNCHANGED <<clock, dataset, records, rows>>

\* Faulty variant: every record carries the ingest time.
IngestTime(m, received) == IF m = NoQuote THEN NoQuote ELSE received

\* Prefer the market time; else the ingest time.
EventTime(m, received) == IF m = NoTime THEN received ELSE m

Normalise(r) ==
    /\ pc[r] = "normalise"
    /\ records' = [records EXCEPT ![r] = [s \in Symbols |-> EventTime(market[r][s], clock)]]
    /\ Goto(r, "commit")
    /\ UNCHANGED <<clock, dataset, market, fetched, known, rows>>

\* Faulty variants: a symbol without a quote gets a row too; the history has rows of
\* the quotes with a market time only.
RowsOfEverySymbol(r) ==
    { [run |-> r, dataset |-> dataset[r], symbol |-> s, event |-> records[r][s]] : s \in Symbols }
HistoryOfTimedQuotes(r) ==
    { [run |-> r, dataset |-> dataset[r], symbol |-> s, event |-> records[r][s]] :
        s \in { t \in Symbols : /\ records[r][t] # NoQuote
                                /\ dataset[r] = History => market[r][t] # NoTime } }

RowsOf(r) ==
    { [run |-> r, dataset |-> dataset[r], symbol |-> s, event |-> records[r][s]] :
        s \in { t \in Symbols : records[r][t] # NoQuote } }

\* The history follows the prices, with records of its own unless it is seeded.
Commit(r) ==
    /\ pc[r] = "commit"
    /\ rows' = rows \cup RowsOf(r)
    /\ IF dataset[r] = Prices
       THEN /\ dataset' = [dataset EXCEPT ![r] = History]
            /\ Goto(r, IF r \in LakeSeeders THEN "commit" ELSE "normalise")
       ELSE UNCHANGED dataset /\ Goto(r, "done")
    /\ UNCHANGED <<clock, market, fetched, known, records>>

\* A run that fails, is killed or has --no-history takes no further step.
Step(r) == Fetch(r) \/ Normalise(r) \/ Commit(r)

Next == Tick \/ \E r \in Runs : Step(r)

Spec == Init /\ [][Next]_vars

-----------------------------------------------------------------------------
(* What readers select                                                     *)

PriceRows(s) == { x \in rows : x.dataset = Prices /\ x.symbol = s }

\* select_latest_bronze_rows; rows with the same event time are all candidates.
Latest(s) == { x \in PriceRows(s) : \A y \in PriceRows(s) : y.event <= x.event }

-----------------------------------------------------------------------------
(* Properties                                                              *)

Timed(x) == market[x.run][x.symbol] # NoTime

\* The time a price is known to be from.
AsOf(x) == IF Timed(x) THEN market[x.run][x.symbol] ELSE fetched[x.run]

\* README.md:171, "A capture with an older market time never replaces a newer
\* price in the latest snapshot": the latest price is as recent as every price in
\* the lake.  The only price that may outrank a more recent one is a quote without
\* a market time, and only one that was committed after that quote was fetched:
\* an overlapping run's (lake.py:154).
LatestIsMostRecent ==
    \A s \in Symbols : \A x \in PriceRows(s), y \in Latest(s) :
        \/ AsOf(y) >= AsOf(x)
        \/ ~ Timed(y) /\ x.run \notin known[y.run]

HistoryOf(x) == { h \in rows : h.dataset = History /\ h.run = x.run /\ h.symbol = x.symbol }

\* A price in /v1/records is in /v1/history with the same symbol once its run has
\* committed both, at the same event time, or a later one if it has no market time
\* and its run took the time twice (ingest.py:300 and 327).
HistoryFollowsPrices ==
    \A x \in rows : x.dataset = Prices =>
        /\ pc[x.run] = "done" => HistoryOf(x) # {}
        /\ \A h \in HistoryOf(x) :
             /\ h.event >= x.event
             /\ Timed(x) \/ x.run \in LakeSeeders => h.event = x.event
=============================================================================
