# book-stock-data: TLA+ models and proofs

`book-stock-data` fetches stock quotes from Yahoo's public chart endpoint,
writes them to a shared data lake (landing, Bronze, manifest) and, after that,
projects them to two local CSV files; a small read-only HTTP API serves the
lake. The project's promise is in a few words of its README: *lake-first*, the
CSV files are projections, they are written atomically, and CSV and Bronze hold
the same quotes. These modules say precisely what that means when commands
overlap, fail, are killed or lose power, and check it: with TLC on small
instances, with TLAPS for every value of the constants.

Paths below are relative to `src/book_stock/` of the repository.

## 1. Inventory

| Component | State it keeps | Operations | Interacts with | What makes it correct | Module |
|---|---|---|---|---|---|
| Projection writes, `fsutil.py` | temporary files and the two CSV files | `atomic_write_csv` (prices), `atomic_append_csv` (history): read, build, `mkstemp`, write, `fsync`, `os.replace`, handler | called by ingest; read by `load_previous_prices`, `load_csv_projection` | readers see the old or the new version, never a cut one; one header; no temporary file left but by a kill or past the handler; appends keep rows | `AtomicFile` |
| Fixture seeding, `store.seed_fixtures` | the same two files | truncate and refill in place | `main --fixture/--dry-run` | as above (it is not) | `AtomicFile`, `LakeIngest` |
| Live ingest, `ingest.py` | lake batches, `lake_lineage.json`, CSV files, exit status | fetch, clean, prices to lake, history to lake, previous prices, project, alerts | lake adapter, fsutil; other ingest processes through files | lake before CSV; a lake failure leaves the CSV alone; success means durable; comparisons with the right earlier price | `LakeIngest` |
| Quote selection, `ingest.quote_from_chart`, `fetch_quotes_raw`, `clean_quotes`, `lake.quote_records_with_report`, `quality.dedupe_by_key` | per run: responses, quotes, rows, records | one answer's numbers; loops over symbols and quotes; event times | Yahoo endpoint; lake | CSV rows are Bronze records; every fetched quote a row or reported; records replay from landing; the latest price is the most recent one | `Chart`, `Quotes`, `LatestPrice` |
| Lake adapter, `lake.py` | none of its own | `ingest_to_lake`, `write_lineage`, the reads | external runtime | order landing, Bronze, manifest, lineage | `LakeIngest`, `CommittedLake`, `LatestPrice`, `StoreApi` |
| Lake seeding helper, `store.seed_lake_from_quotes` | none | one normalisation, prices then history | lake | as live ingest | `LatestPrice` |
| Store reads, `store.py` | none | `load_records`, `load_history`, `get_record`, `envelope`, read modes and fallbacks | API, lake, catalog, Silver | answers are fresh; never go back; fail closed | `StoreApi` |
| HTTP API, `api.py` | threads of one server | GET handlers, refresh acknowledgement | store | what a request finds committed is in its answer, whatever commits between its loads; refresh changes nothing | `StoreApi` |
| Upstream client, `http_client.py` | attempt counter | `request_json` with retries | nothing in the ingest path | bounded attempts; every end is classified | `HttpClient` |
| Policy, configuration, `policy.py`, `config.py` | environment switches | `env_bool`, `evaluate_provider` | every fetch | safe defaults | `HttpClient` |

The hard behaviours are the ones the tests cannot schedule: overlapping ingest
commands (cron and a person, or the scheduler's `StockPriceScraper`) that share
files without a lock; kills, exceptions and power losses between two steps of a
write; a lake that fails half way; the order in which good, bad and repeated quotes
come; captures that reach the lake in another order than they were made; requests
that load more than once while an ingest commits; and numbers at the ends of
what a float holds. `PROJECT.json` lists each hazard at its line.

## 2. Modules

    CsvText ── VersionedFile                 what a projection file promises
       └────── AtomicFile ── AtomicFileProofs
                    └────── MCAtomicFile
    CommittedLake                            what ingest promises to readers
       ├ ─ ─ ─ LakeIngest ── LakeIngestProofs ── LoneRunProofs
       │            └────── MCLakeIngest     (LakeIngest implements it)
       └────── StoreApi ──── StoreApiProofs  (StoreApi extends it)
                    └────── MCStoreApi
    LatestPrice ── LatestPriceProofs         event times across runs
         └────── MCLatestPrice
    Quotes ── QuotesProofs                   one run's quotes
       └──── MCQuotes
    Chart ── ChartProofs                     one answer's numbers
         └────── MCChart
    HttpClient ── HttpClientProofs           one upstream call
         └────── MCHttpClient

**CsvText** is data: the text of a projection as a sequence of lines, a batch
of rows being one line named after its writer. `Extension` is
`atomic_append_csv`'s text building, with the rule for the header and for a last
line that has no newline; `Prefixes` is what an interrupted in-place write may
leave.

**VersionedFile** is the abstract specification: a file that only moves between
complete published texts. `Publish` replaces the prices or extends some
published history; `Revert` is a power loss that brings an earlier version back.
It says deliberately that a history append extends *some* published version: a
caller that read the file earlier extends what it read. `Seed` is the end of the
promise: `seed_fixtures` has begun to write the file by other means.

**AtomicFile** is `fsutil.py` one system call at a time, for any number of
callers of one of the two projections (`projection` is chosen initially:
`stock_prices.csv` is replaced, `stock_history.csv` is appended to, and so are the
calls that are made while no other one is running, `alone`).

| Action | Code |
|---|---|
| `Build` | `path.read_text`, the newline, `csv_text` (fsutil.py:70-74; :57 for the prices) |
| `Mkstemp`, `EnterTry`, `WriteTemp`, `Fsync`, `OsReplace`, `Return` | fsutil.py:21, 22, 24-25, 26, 27, 34 |
| `Raise` | an exception inside the `try`, which the handler at 28 takes; also after the replace, when the temporary file is already gone |
| `Unlink`, `UnlinkFails` | the handler at 29-33, and an interrupt or another `OSError` out of it |
| `RaiseOutsideTry` | an exception where no handler is: before `mkstemp`, between it and the `try`, after the `try` |
| `SeedOpen`, `SeedWrite`, `SeedReturn`, `SeedFail` | `Path.write_text` in store.py:256-263, which writes to the file it opened: after an `os.replace` in between, no reader sees what it writes |
| `Kill`, `Commit`, `PowerLoss` | the operating system: no handler runs; directory entries and contents reach the disk in any order; what is not synced survives as a prefix |

`target` is what readers see, `disk` what a power loss leaves, `there` whose temporary files
are in the directory, and `opened` the seeders whose open file is still the projection.
`versions` and `missed` are history variables: the published texts, and the calls whose
exception the handler did not deal with. A temporary file is left by a kill, a power loss,
or one of those calls.

**LakeIngest** is `run_live_ingest` and `main`, for any number of processes that
share the lake, the lineage file and the CSV files. A process is a program
counter through fetch, landing, Bronze, manifest, lineage (for the prices, then,
unless `--no-history`, for the history), previous prices, prices CSV, history
append (a read and a replace), report. `LakeFails` is the exit with status 2, from any
call of the lake's runtime: finding its URI, landing, Bronze, manifest or lineage.
`Fails` is any other exception, `Kill` a Ctrl-C or `kill -9`; both can happen at every
step. `Report` fails after everything is written when a quote's currency is
null (ingest.py:428). Fixture commands truncate and refill both files beside the
live runs, writing to the file they opened (`opened`) even if a run has replaced it.
Whether a run may overlap others or is on its own is one of its options. A CSV write by a
live run is one atomic step here; theorem `Implements` of `AtomicFileProofs` is the reason.
The lake is external: the
model uses only the order in which `ingest_to_lake` makes a batch visible, that
it can stop between those steps, and that `write_lineage` replaces the entry of
one dataset.

**CommittedLake** is the abstract specification of that lake: batches appear one at a
time and whole, the history of a run after its prices, and stay; the lineage moves to
committed batches only. `LakeIngest` implements it, and `StoreApi` extends it, so what
is shown of the readers holds over whatever the ingest commands really do.

**LatestPrice** is time. A Bronze row carries its quote's market time, or the time of the
normalisation when Yahoo gave none; readers take the row with the greatest as the
latest. A run normalises its quotes anew for each of its two datasets, a lake seeding
(`LakeSeeders`) once for both; a clock ticks between any two steps. `known` and `fetched`
are history variables: what was committed, and when, as a run fetched. One assumption is
the environment's: a market time is not ahead of the clock. `quote_from_chart` does not
check it; a market time in the future would be the latest until it is past.

**StoreApi** is the server: a handler is one action for each load it makes, since the lake
may change between two (`/v1/records/{id}` loads the prices twice, `/v1/metadata` the
prices, the history and the lineage).

| Action | Code |
|---|---|
| `Arrive`, `Refresh` | the routing of `do_GET` and `do_POST`; the refresh token |
| `LoadPrices` | `load_records` under `/healthz`, `/v1/records`, `/v1/metadata` and `get_record` |
| `LoadAgain` | the second load of `/v1/records/{id}` |
| `LoadHistory`, `LoadLineage` | `load_history`, `load_lineage` |
| `Ingest` | any step of `CommittedLake` |
| `Register`, `Transform` | external: the Iceberg catalog and the Silver snapshot are brought up to date by other commands |

`Loads` is what `load_layered_dataset` may return in each read mode: Bronze; the
catalog, which lags, with `LAKE_READ_FALLBACK` deciding what happens when it fails;
Silver, only while it has parity with Bronze. Each of them may fail at any load, and
then the list is empty and the status says so. The status `listed` stands for `ok` and
`stale`, which differ by a clock. That function belongs to the shared runtime: what the
model assumes of it is what the README and the tests (`test_api_free_only.py`,
`test_data_quality.py`) say of each mode. A load that raises ends its request without an
answer, and is left out. An answer stands for the whole list its pages are cut from.
Threads share nothing, so clients do not interact and one is enough.

**Chart** is one answer of the endpoint: `quote_from_chart` on every shape JSON can give it,
`finite_number` on every kind of value, and the blanking of non-finite numbers in the lake's
records. A float is its sign and its order of magnitude, which decide what is
finite and what a division overflows to. Two prices of one magnitude may be equal or differ
by any smaller or equal one, so what `quote_from_chart` makes of an answer is a set.
`Quotes` takes the outcome as given.

**Quotes** is what happens to the quotes within a run, one action per pass of a loop, so
that it can be proved about without recursion. The loops run one after the other, the two of
the normaliser twice: for `clean_quotes`, which wants the ids, and for the lake, which
stores the records.

| Loop (`stage`) | Actions | Code |
|---|---|---|
| `args` | `TakeArg`, `EndArgs` | `dict.fromkeys` over `--symbols` in `main` |
| `fetch` | `FetchUsable`, `FetchUnusable`, `FetchFails`, `EndFetch` | `fetch_quotes_raw` with its dictionary of raw responses |
| `normalise` | `Normalise`, `EndNormalise` | the loop of `quote_records_with_report` |
| `dedupe` | `Dedupe`, `EndDedupe` | `dedupe_by_key` at its end, and the rejections made of its duplicates |
| `pick` | `Pick`, `EndPick` | the second loop of `clean_quotes`, and the failure of a run without quotes |

A quote is known by its response, and a rejection by the quote it is of. A response that
lands does so as text, decoded with `errors="replace"`: the model says which response is
in the payload, and only for a body in UTF-8 is that its exact bytes. Three callers:
`main`, which upper-cases and de-duplicates symbols; the scheduler, which passes what it
was given; a direct call of `clean_quotes`, whose quotes may have no usable price.

**HttpClient** is `request_json`, one action per step of its loop, with the provider
check before it: `EnvBool` is `config.env_bool` on what a switch may say (absent,
blank, a true word, a false word, a typo), `Allowed` is `evaluate_provider` on how
`PROVIDERS` may classify a name. The shipped table has `free` and `blocked` rows
only; the model takes every branch of the function. `Answer` is the upstream: a
200 with usable JSON, a status, a body too long or not JSON, a broken connection, a
timeout. `sent` and `slept` are the attempts made and waited after. The client keeps no
state between calls, so calls do not interact and one is enough.

Each module keeps a few *faulty variants* of its operations next to the real
ones, marked as such: they are not part of the specification, and are what the
mutation checks put in place of an operation to see a property fail.

## 3. Runs

| Run | Instance | Shows |
|---|---|---|
| `atomic_file` | 2 callers and `seed_fixtures`, each overlapping or alone, 1 power loss | `ReadersSeeWholeVersion`, `HeaderOnce`, `NoTempLeftBehind`, `AppendKeepsRows`, refinement of `VersionedFile` |
| `seed_tears` | a caller and `seed_fixtures` | violates `AlwaysWhole`: fixtures are not written atomically |
| `ingest` | 2 live runs and a fixture run, each overlapping or alone, 2 symbols, all switches | `LakeFirst`, `NoCsvOnLakeFailure`, `LineageNamesCommitted`, `SuccessIsDurable`, `NeverComparedWithItself`, `ComparedWithLastCheck`, `LoneRowsStay`, refinement of `CommittedLake` |
| `lost_append` | 2 overlapping live runs | violates `AppendedRowsStay`: both succeed, one's rows are gone |
| `quotes` | lists of up to 4 symbols out of `AAPL`, `aapl`, `MSFT` and a blank, through `main` or the scheduler, each fetch with any outcome; up to 4 arbitrary quotes passed to `clean_quotes` | `LiveCsvAgreesWithBronze`, `FirstAcceptableKept`, `EveryQuoteAccountedFor`, `MainReplaysFromLanding` |
| `quotes_direct` | `clean_quotes` on up to 3 arbitrary quotes | violates `CsvAgreesWithBronze` |
| `quotes_repeated` | the scheduler with up to 3 symbols | violates `RecordsReplayFromLanding` |
| `chart` | every shape of an answer, every kind of its three numbers, orders of magnitude -308, 0, 1 and 308 | `BronzeKeepsTheQuote`, `PreviousCloseFound` |
| `latest_price` | 2 live runs and a seeding of the lake, 1 symbol, 4 instants, every market time or none | `LatestIsMostRecent`, `HistoryFollowsPrices` |
| `store_api` | 1 client with any sequence of requests, 2 ingest runs, 4 configurations | `AnswersAreFresh`, `ReadsNeverGoBack` |
| `record_not_found` | Silver mode, 2 symbols | violates `NotFoundMeansAbsent`: 404 for a record the lake has |
| `http_client` | 1 call, every switch setting and classification, `MAX_RETRIES` in -1..2, every answer | `OnlyFreeUnlessOwnerSays`, `KindNamesLastAttempt`, `WaitsBetweenAttempts`, `EveryStepUsesUp`, `EndsIfAnswered` |

Each run also checks its module's type invariant.

Bounds. The hazards in `AtomicFile` need one call that is interrupted or overtaken and
another that reads what it left, and a third party, here the seeding, whose torn text
both may meet; one power loss is enough because after it every surviving file is durable
and only calls that had not started go on. In `LakeIngest` the interesting interleavings
are between two live runs, or between a live run and a seeding one; two symbols are
needed so that a run can miss a symbol the one before had. In `Quotes` four symbols allow
two repetitions of a symbol, differently spelled, around another one. In `Chart` the orders
of magnitude are the least and the greatest a float has, an ordinary one, and one more, so
that prices of different size can be divided. In `LatestPrice` four instants let a market
time, two fetches and a late normalisation all differ. In `StoreApi` two runs with event
times 1 and 2 can come in either order; symbols only filter rows, so one suffices except
where another record must be found. In `HttpClient` a limit of 2 is the default, and lets a
timeout and a 429 follow each other in both orders. `MaxPowerLoss`, `MaxQuotes`, `MaxTime`
and `MaxEvent` are the only bounds in the modules; everything else is finite because each
process runs once. Live callers, runs and symbols are symmetric. The theorems of section 5
have no bounds.

Every process may end in every module, so the runs do not check deadlock: the
system stops when its commands have ended. Fairness is assumed in `HttpClient` alone,
where there is a loop that must end: weak fairness of the call's own steps, which a
running Python thread takes. Nothing is assumed of `Answer`. The timeout handed to
httpx bounds each read, not the whole response, and the size limit is checked once
the body is complete, so an answer may take forever; `EndsIfAnswered` says the call
ends unless it waits forever for one. Elsewhere no liveness is stated: an ingest run is
a straight line of calls that each return or raise.

## 4. What the checks found

1. **`seed_tears`**: `seed_fixtures` writes with `Path.write_text`; the README says
   CSV projections are written atomically.
2. **`lost_append`**: `atomic_append_csv` is an unlocked read-modify-write; two
   overlapping runs exit with 0 and one's history rows are lost (the lake has them).
3. **`quotes_direct`**: `clean_quotes` pairs accepted ids with quotes by symbol alone
   and can keep the rejected quote. The live path does not reach it, since
   `quote_from_chart` only yields priced quotes (`quotes`, and theorem
   `LiveCsvAgreesWithBronzeAlways` for any number of them).
4. **`quotes_repeated`**: a symbol the scheduler lists twice lands its second
   response and stores its first quote. The command line never lists one twice
   (`MainReplaysFromLandingAlways`).
5. **`record_not_found`**: `get_record` looks the id up in the items of a load whatever its
   `data_status`; while Silver, the catalog or Bronze cannot be read there are none, and
   `/v1/records/{id}` answers 404, "record not found", of a record the lake has, where
   `/v1/records` says `malformed` or `error`.

Two more things the modelling showed are in no run of their own. The item of
`/v1/records/{id}` and its `data_status` come from two loads, so a read that fails in
between makes a 200 answer with `data_status: error` and an item in it. And an answer
whose `chart` is a list with something in it makes `quote_from_chart` raise, where its
docstring says `{}`; the symbol is skipped either way, but its bytes are not landed.

## 5. What is proved

`AtomicFileProofs` (any callers, any overlap, any number of power losses):

- `TypeCorrect` and `NoTempLeft`. The latter rests on the stronger
  `TempOnlyBeforeReplace`: a call about to return already has no temporary file, and one
  that raised has one only if its exception got past the handler, or out of it.
- `WholeVersion` and `Implements`, until fixtures are seeded. The inductive invariant
  says that a text waiting to be written is a new version of a published one
  (`PendingText`), that a written temporary file holds that text and a synced one is
  durable (`TempHoldsText`), and that both what readers see and what a power loss
  would leave are durable published versions (`Published`). `ReadersSeeWholeVersion`
  alone is not inductive: it says nothing of the text about to be renamed. The
  refinement maps `OsReplace` to `Publish`, `PowerLoss` to `Revert`, the start of a seeding
  and all that follows to `Seed`, the rest to stuttering.
- `HeaderOnceAlways`, from the refinement: every published text is well formed because
  it extends one that is (`OneHeader`).
- `AppendKeepsRowsAlways`, seeding included: the text of an append made alone extends what
  readers see until it replaces it (`Serial`).

`LakeIngestProofs` (any runs, symbols and overlap): `TypeCorrect`, then `Inductive`,
from which `LakeFirstAlways`, `NoCsvOnLakeFailureAlways`, `LineageAlways`,
`SuccessIsDurableAlways` and `NeverComparedWithItselfAlways` follow. The invariant
ties each run's program counter to its committed datasets (`Ladder`), to the
batches it left half written (`Fragments`) and to its exit status (`Exits`), extends
`LakeFirst` to the text an append holds in memory (`Shown`: without it, another
run's append could carry uncommitted rows back), and says a run that has not
appended is in no text (`Unseen`, for the comparison with itself). The lemma
`LastRowInFile` needs that a nonempty set of positions has a maximum, which comes
from the well-foundedness of the naturals. `Implements` maps `Commit` and `WriteLineage` to
the two actions of `CommittedLake`.

`LoneRunProofs` adds what a run on its own may count on, whatever overlaps before and
after: `LoneRowsStayAlways` (its rows are in the file and in every text waiting to replace
it, `Stays`) and `ComparedWithLastCheckAlways` (the property holds of waiting texts too, and
the run knows the file's last rows from the moment it has read them, `Remembered`).

`LatestPriceProofs` (any runs, symbols and times): `TypeCorrect`, then `Inductive`, from which
`LatestIsMostRecentAlways` and `HistoryFollowsPricesAlways` follow. The invariant says where
in time each run's fetch, records and rows lie: no market time is after the fetch
(`Captured`), what was known at the fetch had been stamped by then (`KnownBefore`), a
record is its quote's market time or no earlier than the fetch (`Recorded`), and a row
is its run's record (`RowsStamped`). `HistoryFollowsPrices` needs a second invariant, `HInv`:
the records a run is about to commit have every quote it fetched, and once it is done each
of its prices has a history row (`Complete`, `PricesInHistory`).

`StoreApiProofs` (any clients, runs, symbols, settings): `TypeCorrect`, then `Inductive`, from
which `AnswersAreFreshAlways` and `ReadsNeverGoBackAlways` follow. The invariant says of each
place in a handler what has been loaded (`Place`), that it covers what was committed when
the request arrived (`Held`) and what the client has been shown (`Shown`), and that an empty
load was of an empty lake (`EmptyIsEmpty`). That the newest of a symbol's rows exists is the
well-foundedness of the naturals again.

`ChartProofs` (any range of exponents): `TypeCorrect`, `Inductive`, `BronzeKeepsTheQuoteAlways`
and `PreviousCloseFoundAlways`: the result is one of `QuoteFromChart` of the answer and the
record `RecordOf` of the result, and each number of a quote is finite.

`HttpClientProofs` (any set of retry limits): `TypeCorrect`,
`KindNamesLastAttemptAlways`, `WaitsBetweenAttemptsAlways` and
`OnlyFreeUnlessOwnerSaysAlways`. The invariant adds to the properties what has been
sent and waited for at each place of the loop (`Progress`) and that only an allowed
provider gets past the check (`Checked`). `EveryStepUsesUpAlways` is the safety core of
termination: `ToGo`, the attempts left and the way through the present one, is a natural
number that every step makes smaller, so a call takes at most `4 * (MAX_RETRIES + 1) + 6`
steps, answers and interruptions included.

`QuotesProofs` (any symbols, spellings, callers and number of quotes): `TypeCorrect`,
`LiveCsvAgreesWithBronzeAlways`, `FirstAcceptableKeptAlways`, `EveryQuoteAccountedForAlways`
and `MainReplaysFromLandingAlways`. Each loop has its own invariant, which says what it has
made of the part of its list it is past, and becomes what the next loop starts from:

- `FetchLoop`: a quote has a price and is of the symbol at its response's place in the list,
  the quotes are in the order of their responses, and through `main` the symbols are distinct
  and the landing payload holds each quote's own response.
- `NormaliseLoop`: the records so far have the ids of the acceptable quotes passed; records and
  rejections add up to the quotes passed.
- `DedupeLoop`: the records kept have the ids of the records passed, each once (as many ids as
  records), and kept, rejected and still to come add up to the quotes.
- `PickLoop`: the ids still to be met are those of the acceptable quotes less those of the
  quotes passed, so the rows are the first quotes of each such id; rows, ids still to be met
  and rejections add up to the quotes.
- `CleanQuotes`: the same at the end of that loop, when no id is left to be met.
- `Reports`: what each loop has reported is what it passed and dropped, the unacceptable
  quotes in the first and the repeated ids in the second; with `FirstAcceptableKept` this gives
  `EveryQuoteAccountedFor` quote by quote for fetched quotes, and not only by count.
- `LakeLoops`: on quotes that all have prices and, being firsts, ids of their own, the second
  normalisation drops nothing and makes its records row by row of what was kept.

`LiveCsvAgreesWithBronze` alone says nothing before the end, and its proof needs that the rows
have distinct ids, which only the loops before it establish. `CsvAgreesWithBronze` without
its condition is not an invariant: a direct caller violates it.

The assumptions are those the modules name: `Fixture`, `Nothing` and the runs are
distinct, seeders are callers, and so on. TLC evaluates them on every run.

Only model-checked: `EndsIfAnswered`, which is liveness under fairness. That the call does
not go on forever is proved (`EveryStepUsesUp`); that its next step is enabled, and so taken,
is left to TLC.

## 6. Not modelled

- Rounding of prices and percentages, formatting of the CSV fields and of the printed
  report, the alert thresholds. `LakeIngest` knows a price by the batch it comes from.
- In the API: CORS and `OPTIONS`, unknown paths, a blank record id (they answer without
  reading anything), query parsing, JSON output. In the store: `paginate` and its
  cursor, which is the shared runtime's, the clock that tells `stale` from `ok`, loads
  that raise, the report of the Silver comparison, and `load_csv_projection`, which
  nothing in the package calls.
- In the lake adapter: where the shared runtime and the lake are found, record keys,
  schemas, retention, and the read functions nothing in the package calls. The runtime
  itself is not in the repository; section 2 says what is assumed of it. A landing batch
  is taken to be distinct from every other one.
- In the policy: `provider_matrix` (formatting), `external_writes_allowed` and
  `missing_credential_status` (nothing calls them).

## 7. Plan

1. *Done:* the modules of section 2 and the proofs of section 5.
2. The paging cursor and the staleness clock, should the shared runtime's reads be
   brought into the repository.
