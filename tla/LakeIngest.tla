----------------------------- MODULE LakeIngest -----------------------------
(***************************************************************************)
(* src/book_stock/ingest.py: run_live_ingest and main.  Each run is one    *)
(* `python -m book_stock.ingest` process, or one StockPriceScraper.run;    *)
(* runs share the lake, the lineage file and the two CSV projections.  A   *)
(* run writes the lake first (landing, Bronze, manifest, then lineage, for *)
(* the prices and then for the history) and projects to CSV afterwards.    *)
(* The lake itself is external: it is modelled by the order in which       *)
(* ingest_to_lake makes a batch visible and by what its callers rely on.   *)
(* One CSV write is one step here; AtomicFile shows why it may be.         *)
(***************************************************************************)
EXTENDS Naturals, Sequences, FiniteSets, FiniteSetsExt, Functions

CONSTANTS Runs,      \* the ingest commands
          Seeders,   \* those started with --fixture or --dry-run
          Symbols,   \* the symbols a run may get quotes for
          Fixture,   \* names the batch of rows under fixtures/
          Nothing    \* "no batch"

ASSUME SeedersAssumption == Seeders \subseteq Runs
ASSUME BatchAssumption ==
    Fixture \notin Runs /\ Nothing \notin Runs \cup {Fixture} /\ Nothing \notin {0, 1, 2}

VARIABLES
    pc,          \* where each run is
    opts,        \* its --no-history and --no-project-csv switches, and whether
                 \* it is run on its own, with no other run going on
    quotes,      \* the symbols of the quotes clean_quotes kept
    dataset,     \* the dataset it is writing
    landing,     \* <<run, dataset>> whose raw bytes are in the lake
    bronze,      \* <<run, dataset>> whose Bronze rows are in the lake
    manifests,   \* <<run, dataset>> committed
    lineage,     \* lake_lineage.json: the batch it names for each dataset
    pricesCsv,   \* the batch whose rows stock_prices.csv holds
    historyCsv,  \* the batches whose rows stock_history.csv holds, in order
    opened,      \* the fixture runs that have open the very file readers see
    existing,    \* what an append has read of stock_history.csv
    prev,        \* load_previous_prices: the batch each symbol's price is from
    exit         \* exit status; Nothing until the run ends, or if it is killed

vars == <<pc, opts, quotes, dataset, landing, bronze, manifests,
          lineage, pricesCsv, historyCsv, opened, existing, prev, exit>>
lake == <<landing, bronze, manifests, lineage>>
csv == <<pricesCsv, historyCsv, opened>>
input == <<opts, quotes>>

Prices == "stock_prices"
History == "stock_history"
Datasets == {Prices, History}
Batches == Runs \cup {Fixture}

InLake == {"land", "stage", "commit", "lineage"}
InCsv == {"readPrevious", "prices", "appendRead", "appendReplace"}
InSeed == {"seedPrices", "fillPrices", "seedHistory", "fillHistory"}
Running == {"fetch", "report"} \cup InLake \cup InCsv \cup InSeed

TypeOK ==
    /\ pc \in [Runs -> {"idle", "ended", "killed"} \cup Running]
    /\ opts \in [Runs -> [history : BOOLEAN, csv : BOOLEAN, alone : BOOLEAN]]
    /\ quotes \in [Runs -> SUBSET Symbols]
    /\ dataset \in [Runs -> Datasets]
    /\ landing \subseteq Runs \X Datasets
    /\ bronze \subseteq Runs \X Datasets
    /\ manifests \subseteq Runs \X Datasets
    /\ lineage \in [Datasets -> Runs \cup {Nothing}]
    /\ pricesCsv \in Batches \cup {Nothing}
    /\ historyCsv \in Seq(Batches)
    /\ opened \subseteq Runs
    /\ existing \in [Runs -> Seq(Batches)]
    /\ prev \in [Runs -> [Symbols -> Batches \cup {Nothing}]]
    /\ exit \in [Runs -> {0, 1, 2, Nothing}]

Init ==
    /\ pc = [r \in Runs |-> "idle"]
    /\ opts \in [Runs -> [history : BOOLEAN, csv : BOOLEAN, alone : BOOLEAN]]
    /\ \A f \in Seeders : opts[f].history /\ opts[f].csv  \* neither switch is read
    /\ quotes = [r \in Runs |-> {}]
    /\ dataset = [r \in Runs |-> Prices]
    /\ landing = {} /\ bronze = {} /\ manifests = {}
    /\ lineage = [d \in Datasets |-> Nothing]
    /\ pricesCsv = Nothing
    /\ historyCsv = <<>>
    /\ opened = {}
    /\ existing = [r \in Runs |-> <<>>]
    /\ prev = [r \in Runs |-> [s \in Symbols |-> Nothing]]
    /\ exit = [r \in Runs |-> Nothing]

Goto(r, step) == pc' = [pc EXCEPT ![r] = step]
End(r, status) == Goto(r, "ended") /\ exit' = [exit EXCEPT ![r] = status]

-----------------------------------------------------------------------------
(* main, fetch_quotes_raw and clean_quotes                                 *)

Start(r) ==
    /\ pc[r] = "idle"
    /\ \A q \in Runs : pc[q] \in Running => ~ opts[q].alone /\ ~ opts[r].alone
    /\ Goto(r, IF r \in Seeders THEN "seedPrices" ELSE "fetch")
    /\ UNCHANGED <<input, dataset, lake, csv, existing, prev, exit>>

\* Any subset of the symbols may yield a kept quote; none at all ends the run.
Fetch(r) ==
    /\ pc[r] = "fetch"
    /\ \E kept \in SUBSET Symbols :
         /\ quotes' = [quotes EXCEPT ![r] = kept]
         /\ IF kept = {} THEN End(r, 1) ELSE Goto(r, "land") /\ UNCHANGED exit
    /\ UNCHANGED <<opts, dataset, lake, csv, existing, prev>>

-----------------------------------------------------------------------------
(* _lake_ingest_prices and _lake_ingest_history: ingest_to_lake lands the  *)
(* raw bytes, stages Bronze rows and commits a manifest; then lineage.     *)

Land(r) ==
    /\ pc[r] = "land"
    /\ landing' = landing \cup {<<r, dataset[r]>>}
    /\ Goto(r, "stage")
    /\ UNCHANGED <<input, dataset, bronze, manifests, lineage, csv, existing, prev, exit>>

\* Faulty variant: the lineage is written before the manifest.
StageWithoutCommit(r) ==
    /\ pc[r] = "stage"
    /\ bronze' = bronze \cup {<<r, dataset[r]>>}
    /\ Goto(r, "lineage")
    /\ UNCHANGED <<input, dataset, landing, manifests, lineage, csv, existing, prev, exit>>

Stage(r) ==
    /\ pc[r] = "stage"
    /\ bronze' = bronze \cup {<<r, dataset[r]>>}
    /\ Goto(r, "commit")
    /\ UNCHANGED <<input, dataset, landing, manifests, lineage, csv, existing, prev, exit>>

\* Faulty variant: the manifest is rewritten and drops the other runs' batches.
CommitAlone(r) ==
    /\ pc[r] = "commit"
    /\ manifests' = { b \in manifests : b[1] = r } \cup {<<r, dataset[r]>>}
    /\ Goto(r, "lineage")
    /\ UNCHANGED <<input, dataset, landing, bronze, lineage, csv, existing, prev, exit>>

Commit(r) ==
    /\ pc[r] = "commit"
    /\ manifests' = manifests \cup {<<r, dataset[r]>>}
    /\ Goto(r, "lineage")
    /\ UNCHANGED <<input, dataset, landing, bronze, lineage, csv, existing, prev, exit>>

\* Faulty variant: the history dataset is projected but not ingested.
MoreToLakeNever(r) == FALSE

\* What follows a dataset: the history after the prices, then the projection.
MoreToLake(r) == dataset[r] = Prices /\ opts[r].history

ToNextDataset(r) ==
    IF MoreToLake(r)
    THEN /\ dataset' = [dataset EXCEPT ![r] = History]
         /\ Goto(r, "land")
    ELSE /\ Goto(r, IF opts[r].csv THEN "readPrevious" ELSE "report")
         /\ UNCHANGED dataset

\* Faulty variant: the file names the dataset instead of its batch.
WriteLineageOfDataset(r) ==
    /\ pc[r] = "lineage"
    /\ lineage' = [lineage EXCEPT ![dataset[r]] = dataset[r]]
    /\ ToNextDataset(r)
    /\ UNCHANGED <<input, landing, bronze, manifests, csv, existing, prev, exit>>

WriteLineage(r) ==
    /\ pc[r] = "lineage"
    /\ lineage' = [lineage EXCEPT ![dataset[r]] = r]
    /\ ToNextDataset(r)
    /\ UNCHANGED <<input, landing, bronze, manifests, csv, existing, prev, exit>>

\* Faulty variant: a lake failure is logged and the run goes on.
LakeFailsOpen(r) ==
    /\ pc[r] \in InLake
    /\ ToNextDataset(r)
    /\ UNCHANGED <<input, lake, csv, existing, prev, exit>>

\* LakeUnavailable or LakeIngestError, from default_data_lake_uri, from
\* ingest_to_lake or from write_lineage: the batch stays as far as it got.
LakeFails(r) ==
    /\ pc[r] \in {"fetch"} \cup InLake
    /\ End(r, 2)
    /\ UNCHANGED <<input, dataset, lake, csv, existing, prev>>

-----------------------------------------------------------------------------
(* The projection, the alerts and the table                                *)

SymbolsOf(b) == IF b = Fixture THEN Symbols ELSE quotes[b]

RowsOf(h, s) == { i \in DOMAIN h : s \in SymbolsOf(h[i]) }

\* Faulty variant: the first row is taken for the header.
LastRowPastHeader(h, s) ==
    IF RowsOf(h, s) \subseteq {1} THEN Nothing ELSE h[Max(RowsOf(h, s))]

\* Later rows of the file overwrite earlier ones of the same symbol.
LastRow(h, s) == IF RowsOf(h, s) = {} THEN Nothing ELSE h[Max(RowsOf(h, s))]

ReadPrevious(r) ==
    /\ pc[r] = "readPrevious"
    /\ prev' = [prev EXCEPT ![r] = [s \in Symbols |-> LastRow(historyCsv, s)]]
    /\ Goto(r, "prices")
    /\ UNCHANGED <<input, dataset, lake, csv, existing, exit>>

ProjectPrices(r) ==
    /\ pc[r] = "prices"
    /\ pricesCsv' = r
    /\ opened' = { f \in opened : pc[f] # "fillPrices" }
    /\ Goto(r, IF opts[r].history THEN "appendRead" ELSE "report")
    /\ UNCHANGED <<input, dataset, lake, historyCsv, existing, prev, exit>>

\* Faulty variant: the append does not read what the file holds.
AppendReadNothing(r) ==
    /\ pc[r] = "appendRead"
    /\ existing' = [existing EXCEPT ![r] = <<>>]
    /\ Goto(r, "appendReplace")
    /\ UNCHANGED <<input, dataset, lake, csv, prev, exit>>

AppendRead(r) ==
    /\ pc[r] = "appendRead"
    /\ existing' = [existing EXCEPT ![r] = historyCsv]
    /\ Goto(r, "appendReplace")
    /\ UNCHANGED <<input, dataset, lake, csv, prev, exit>>

\* Faulty variant: the previous prices are read after the append.
AppendReplaceThenReadPrevious(r) ==
    /\ pc[r] = "appendReplace"
    /\ historyCsv' = Append(existing[r], r)
    /\ opened' = { f \in opened : pc[f] # "fillHistory" }
    /\ prev' = [prev EXCEPT ![r] = [s \in Symbols |-> LastRow(historyCsv', s)]]
    /\ Goto(r, "report")
    /\ UNCHANGED <<input, dataset, lake, pricesCsv, existing, exit>>

AppendReplace(r) ==
    /\ pc[r] = "appendReplace"
    /\ historyCsv' = Append(existing[r], r)
    /\ opened' = { f \in opened : pc[f] # "fillHistory" }
    /\ Goto(r, "report")
    /\ UNCHANGED <<input, dataset, lake, pricesCsv, existing, prev, exit>>

\* print_alerts and the table, whose {q['currency']:>8s} refuses a null and makes it 1;
\* whether a quote has a null currency makes no difference before.
Report(r) ==
    /\ pc[r] = "report"
    /\ \E status \in {0, 1} : End(r, status)
    /\ UNCHANGED <<input, dataset, lake, csv, existing, prev>>

-----------------------------------------------------------------------------
(* Fixture mode: seed_fixtures truncates and refills each projection.  The *)
(* text goes to the file that was opened: if a run has replaced the        *)
(* projection meanwhile, no reader sees it.                                *)

SeedPrices(r) ==
    /\ pc[r] = "seedPrices" /\ Goto(r, "fillPrices")
    /\ pricesCsv' = Nothing
    /\ opened' = opened \cup {r}
    /\ UNCHANGED <<input, dataset, lake, historyCsv, existing, prev, exit>>

FillPrices(r) ==
    /\ pc[r] = "fillPrices" /\ Goto(r, "seedHistory")
    /\ pricesCsv' = IF r \in opened THEN Fixture ELSE pricesCsv
    /\ opened' = opened \ {r}
    /\ UNCHANGED <<input, dataset, lake, historyCsv, existing, prev, exit>>

SeedHistory(r) ==
    /\ pc[r] = "seedHistory" /\ Goto(r, "fillHistory")
    /\ historyCsv' = <<>>
    /\ opened' = opened \cup {r}
    /\ UNCHANGED <<input, dataset, lake, pricesCsv, existing, prev, exit>>

FillHistory(r) ==
    /\ pc[r] = "fillHistory" /\ End(r, 0)
    /\ historyCsv' = IF r \in opened THEN <<Fixture>> ELSE historyCsv
    /\ opened' = opened \ {r}
    /\ UNCHANGED <<input, dataset, lake, pricesCsv, existing, prev>>

-----------------------------------------------------------------------------
(* Other ends                                                              *)

\* Faulty variant: main reports every exception with status 2.
AnyExceptionIsALakeFailure(r) ==
    /\ pc[r] \in Running /\ End(r, 2)
    /\ opened' = opened \ {r}
    /\ UNCHANGED <<input, dataset, lake, pricesCsv, historyCsv, existing, prev>>

\* Any other exception (OSError, RuntimeError, a fixture that cannot be read).
Fails(r) ==
    /\ pc[r] \in Running /\ End(r, 1)
    /\ opened' = opened \ {r}
    /\ UNCHANGED <<input, dataset, lake, pricesCsv, historyCsv, existing, prev>>

\* Ctrl-C or kill -9 between two steps; a later run finds what is left.
Kill(r) ==
    /\ pc[r] \in Running /\ Goto(r, "killed")
    /\ opened' = opened \ {r}
    /\ UNCHANGED <<input, dataset, lake, pricesCsv, historyCsv, existing, prev, exit>>

-----------------------------------------------------------------------------
Live(r) == \/ Fetch(r) \/ Land(r) \/ Stage(r) \/ Commit(r) \/ WriteLineage(r)
           \/ LakeFails(r) \/ ReadPrevious(r) \/ ProjectPrices(r)
           \/ AppendRead(r) \/ AppendReplace(r) \/ Report(r)

SeedFixtures(r) == SeedPrices(r) \/ FillPrices(r) \/ SeedHistory(r) \/ FillHistory(r)

Step(r) == Start(r) \/ Live(r) \/ SeedFixtures(r) \/ Fails(r) \/ Kill(r)

Next == \E r \in Runs : Step(r)

Spec == Init /\ [][Next]_vars

Readable == INSTANCE CommittedLake WITH committed <- manifests

-----------------------------------------------------------------------------
(* Properties                                                              *)

\* The batches that have a row in a CSV projection.
InCsvFiles == {pricesCsv} \cup Range(historyCsv)

Committed(r) == { d \in Datasets : <<r, d>> \in manifests }
Due(r) == IF opts[r].history THEN Datasets ELSE {Prices}

\* "lake-first": whatever overlaps, fails or is killed, a run has rows in a CSV
\* projection only after every dataset it writes is committed in the lake.
LakeFirst == \A r \in Runs \cap InCsvFiles : Due(r) \subseteq Committed(r)

\* README.md:132, "Live ingest exits non-zero on lake failure and does not
\* update CSV": a run that reports a lake failure (ingest.py:519, exit status
\* 2) has no row in either projection, then or later.
NoCsvOnLakeFailure == \A r \in Runs \cap InCsvFiles : exit[r] # 2

\* lake_lineage.json never names a batch that is not committed, and the history
\* batch it names has its parent prices batch committed too (ingest.py:408).
LineageNamesCommitted ==
    \A d \in Datasets : lineage[d] # Nothing => {Prices, d} \subseteq Committed(lineage[d])

\* A run that exits with 0 has committed everything it set out to write and
\* leaves no batch half written in the lake (fail-closed).
SuccessIsDurable ==
    \A r \in Runs \ Seeders : exit[r] = 0 =>
        /\ Due(r) \subseteq Committed(r)
        /\ \A d \in Datasets : <<r, d>> \in landing \cup bronze => <<r, d>> \in manifests

\* ingest.py:411: "since last check" never compares a price with itself, even
\* when another run appends in between.
NeverComparedWithItself == \A r \in Runs, s \in Symbols : prev[r][s] # r

\* The price that a run on its own compares with is, for each of its symbols, the
\* one recorded just before its own in stock_history.csv, however the runs before
\* and after it overlap.
ComparedWithLastCheck ==
    \A i \in DOMAIN historyCsv : historyCsv[i] \in { q \in Runs : opts[q].alone } =>
        LET r == historyCsv[i] IN
        \A s \in quotes[r] :
            \/ /\ prev[r][s] = Nothing
               /\ \A j \in 1..(i - 1) : s \notin SymbolsOf(historyCsv[j])
            \/ \E j \in 1..(i - 1) :
               /\ prev[r][s] = historyCsv[j] /\ s \in SymbolsOf(historyCsv[j])
               /\ \A k \in (j + 1)..(i - 1) : s \notin SymbolsOf(historyCsv[k])

\* UPGRADE-PLAN.md, "history appended via atomic rewrite", and fsutil.py:65,
\* "Append rows": what a run that exits with 0 appended stays in the history
\* projection, unless fixtures were seeded over it.
AppendedRowsStay ==
    (\A f \in Seeders : pc[f] = "idle") =>
        \A r \in Runs : exit[r] = 0 /\ opts[r].history /\ opts[r].csv
            => r \in Range(historyCsv)

\* The same of a run on its own: later runs that overlap lose none of its rows.
LoneRowsStay ==
    (\A f \in Seeders : pc[f] = "idle") =>
        \A r \in Runs : exit[r] = 0 /\ opts[r] = [history |-> TRUE, csv |-> TRUE, alone |-> TRUE]
            => r \in Range(historyCsv)

\* What readers of the lake may rely on (lake.py:183-218): whatever the runs do,
\* batches become visible one at a time, the prices of a run before its history,
\* none is ever taken back, and the lineage moves to a committed batch only.
ImplementsCommittedLake == Readable!Spec
=============================================================================
