------------------------------ MODULE StoreApi ------------------------------
(***************************************************************************)
(* src/book_stock/api.py and the loads of store.py it makes, over a lake   *)
(* that ingest commands fill meanwhile (CommittedLake).  The server has a  *)
(* thread per request and keeps nothing between requests; each load reads  *)
(* the lake as it is then, and some handlers load more than once.          *)
(*                                                                         *)
(* load_layered_dataset and the Silver and Iceberg copies of the lake are  *)
(* external: they are modelled by what the store asks of them and by what  *)
(* tests/test_api_free_only.py and the README say of each mode.  A row is  *)
(* a run and a symbol; event times only order them (LatestPrice says what  *)
(* they are).  An answer stands for the list its pages are cut from.       *)
(***************************************************************************)
EXTENDS CommittedLake, Naturals

CONSTANTS Clients,   \* each sends one request after another
          Symbols,
          MaxEvent,  \* event times are 1..MaxEvent
          Settings   \* the configurations the server may be started with

ASSUME EventAssumption == MaxEvent \in Nat \ {0}
ASSUME SettingsAssumption ==
    Settings \subseteq [mode : {"parquet", "iceberg"}, fallback : {"error", "parquet"},
                        silver : {"bronze", "compare", "silver"}, refresh : BOOLEAN]
ASSUME PilotsAssumption ==
    \A s \in Settings : s.silver # "bronze" => s.mode = "parquet"
ASSUME SymbolAssumption == Nothing \notin Symbols

VARIABLES
    event,    \* the event time of each run's row of a symbol; 0 if it has none
    config,   \* the environment the server was started with
    catalog,  \* the batches registered with the Iceberg catalog
    silver,   \* the batches the Silver snapshot was made from; Nothing if there is none
    pc,       \* where the handler of each client's request is
    request,  \* the request
    arrived,  \* the batches committed when it arrived
    loaded,   \* what the handler has loaded of each dataset
    answer,   \* the response
    seen      \* the rows of each dataset the client's earlier responses listed

lake == <<committed, lineage>>
copies == <<catalog, silver>>
server == <<pc, request, arrived, loaded, answer, seen>>
vars == <<lake, event, config, copies, server>>

Rows == Runs \X Symbols
Requests == ({"healthz", "metadata", "records", "history", "refresh"} \X {Nothing})
                \cup ({"record"} \X Symbols)
NoRequest == <<"none", Nothing>>
\* "listed" stands for data_status "ok" and for "stale", which is told of the same
\* rows once the newest is older than STALE_AFTER_HOURS.
Statuses == {"listed", "empty", "error", "malformed"}
Payloads == [status : Statuses \cup {"none"}, items : SUBSET Rows,
             source : {"none", "bronze", "silver", "iceberg", "fallback"}]
NotLoaded == [status |-> "none", items |-> {}, source |-> "none"]
Answers == [code : {0, 200, 202, 403, 404},
            status : Statuses \cup {"none", "not_found", "forbidden", "accepted"},
            prices : SUBSET Rows, history : SUBSET Rows,
            lineage : [Datasets -> Runs \cup {Nothing}]]
NoLineage == [d \in Datasets |-> Nothing]
NoAnswer == [code |-> 0, status |-> "none", prices |-> {}, history |-> {}, lineage |-> NoLineage]

ApiTypeOK ==
    /\ TypeOK
    /\ event \in [Runs -> [Symbols -> 0..MaxEvent]]
    /\ config \in Settings
    /\ catalog \subseteq committed
    /\ silver \in {Nothing} \cup SUBSET committed
    /\ pc \in [Clients -> {"idle", "prices", "history", "lineage", "again"}]
    /\ request \in [Clients -> Requests \cup {NoRequest}]
    /\ arrived \in [Clients -> SUBSET committed]
    /\ loaded \in [Clients -> [Datasets -> Payloads]]
    /\ answer \in [Clients -> Answers]
    /\ seen \in [Clients -> [Datasets -> SUBSET Rows]]

ApiInit ==
    /\ Init
    /\ event \in [Runs -> [Symbols -> 0..MaxEvent]]
    /\ config \in Settings
    /\ catalog = {} /\ silver = Nothing
    /\ pc = [c \in Clients |-> "idle"]
    /\ request = [c \in Clients |-> NoRequest]
    /\ arrived = [c \in Clients |-> {}]
    /\ loaded = [c \in Clients |-> [d \in Datasets |-> NotLoaded]]
    /\ answer = [c \in Clients |-> NoAnswer]
    /\ seen = [c \in Clients |-> [d \in Datasets |-> {}]]

-----------------------------------------------------------------------------
(* What a load can return (store.load_records, store.load_history)         *)

Event(x) == event[x[1]][x[2]]

\* The rows that batches hold for a dataset.
RowsIn(batches, d) == { x \in Rows : <<x[1], d>> \in batches /\ Event(x) # 0 }

\* The rows none of the same symbol is later than.
Newest(rows) == { x \in rows : \A y \in rows : y[2] = x[2] => Event(y) <= Event(x) }

\* latest_only: one row of each symbol, a newest one.  The history is listed whole.
Listings(batches, d) ==
    LET rows == RowsIn(batches, d) IN
    IF d = History THEN {rows}
    ELSE { list \in SUBSET Newest(rows) :
             /\ \A x \in rows : \E y \in list : y[2] = x[2]
             /\ \A x, y \in list : x[2] = y[2] => x = y }

Listed(batches, d, source) ==
    { [status |-> IF list = {} THEN "empty" ELSE "listed", items |-> list,
       source |-> source] : list \in Listings(batches, d) }

Failed(source) == [status |-> "error", items |-> {}, source |-> source]
Malformed == [status |-> "malformed", items |-> {}, source |-> "silver"]

\* A read of the Bronze files may fail, as any read of a store may.  (A load that
\* raises ends its request without an answer, and is left out.)
BronzeLoads(d, source) == Listed(committed, d, source) \cup {Failed(source)}

\* Silver agrees with Bronze if it has the same latest rows.
Parity == silver # Nothing
            /\ Newest(RowsIn(silver, Prices)) = Newest(RowsIn(committed, Prices))

\* Faulty variant: the Silver snapshot is served as soon as there is one.
SilverWithoutParity ==
    IF silver = Nothing THEN {Malformed} ELSE Listed(silver, Prices, "silver")

\* SILVER_READ_MODE=silver: only after parity passes, fail-closed otherwise.
SilverLoads == {Malformed} \cup (IF Parity THEN Listed(silver, Prices, "silver") ELSE {})

\* Faulty variant: the catalog's failure always falls back to Bronze.
IcebergLoadsOrBronze(d) ==
    Listed(catalog, d, "iceberg") \cup BronzeLoads(d, "fallback")

\* LAKE_READ_MODE=iceberg: the catalog may fail at any load.
IcebergLoads(d) ==
    Listed(catalog, d, "iceberg")
        \cup (IF config.fallback = "parquet" THEN BronzeLoads(d, "fallback")
                                             ELSE {Failed("iceberg")})

ServesSilver(d) == config.silver = "silver" /\ d = Prices

Loads(d) == IF ServesSilver(d) THEN SilverLoads
            ELSE IF config.mode = "iceberg" THEN IcebergLoads(d)
            ELSE BronzeLoads(d, "bronze")

-----------------------------------------------------------------------------
(* The handlers                                                            *)

Kind(c) == request[c][1]
Id(c) == request[c][2]
Goto(c, step) == pc' = [pc EXCEPT ![c] = step]

Reply(c, code, status, prices, history, names) ==
    /\ answer' = [answer EXCEPT ![c] = [code |-> code, status |-> status, prices |-> prices,
                                        history |-> history, lineage |-> names]]
    /\ Goto(c, "idle")

Load(c, d, p) == loaded' = [loaded EXCEPT ![c][d] = p]

\* do_GET and do_POST find the handler; the client has had its last answer.
Arrive(c) ==
    /\ pc[c] = "idle"
    /\ \E q \in Requests :
         /\ q[1] # "refresh"
         /\ request' = [request EXCEPT ![c] = q]
         /\ Goto(c, IF q[1] = "history" THEN "history" ELSE "prices")
    /\ arrived' = [arrived EXCEPT ![c] = committed]
    /\ loaded' = [loaded EXCEPT ![c] = [d \in Datasets |-> NotLoaded]]
    /\ answer' = [answer EXCEPT ![c] = NoAnswer]
    /\ seen' = [seen EXCEPT ![c] = [d \in Datasets |->
         seen[c][d] \cup (IF d = Prices THEN answer[c].prices ELSE answer[c].history)]]

\* /v1/refresh acknowledges, if it is allowed and the token is right, and no more.
Refresh(c) ==
    /\ pc[c] = "idle"
    /\ request' = [request EXCEPT ![c] = <<"refresh", Nothing>>]
    /\ \E rightToken \in BOOLEAN :
         IF config.refresh /\ rightToken
         THEN Reply(c, 202, "accepted", {}, {}, NoLineage)
         ELSE Reply(c, 403, "forbidden", {}, {}, NoLineage)
    /\ arrived' = [arrived EXCEPT ![c] = committed]
    /\ loaded' = [loaded EXCEPT ![c] = [d \in Datasets |-> NotLoaded]]
    /\ UNCHANGED seen

\* The one load of /healthz, which shows its status only, and of /v1/records.
Healthz(c, p) ==
    Kind(c) = "healthz" /\ Reply(c, 200, p.status, {}, {}, NoLineage)

Records(c, p) ==
    Kind(c) = "records" /\ Reply(c, 200, p.status, p.items, {}, NoLineage)

\* The first of the three reads of /v1/metadata.
MetadataRecords(c, p) ==
    Kind(c) = "metadata" /\ Goto(c, "history") /\ UNCHANGED answer

ItemOf(p, id) == { x \in p.items : x[2] = id }

\* Faulty variant: a record that is not found is called a bad request.
GetRecordOrBadRequest(c, p) ==
    /\ Kind(c) = "record"
    /\ IF ItemOf(p, Id(c)) = {}
       THEN Reply(c, 400, "not_found", {}, {}, NoLineage)
       ELSE Goto(c, "again") /\ UNCHANGED answer

\* get_record: the items of a load that failed are none, so nothing is found.
GetRecord(c, p) ==
    /\ Kind(c) = "record"
    /\ IF ItemOf(p, Id(c)) = {}
       THEN Reply(c, 404, "not_found", {}, {}, NoLineage)
       ELSE Goto(c, "again") /\ UNCHANGED answer

LoadPrices(c) ==
    /\ pc[c] = "prices"
    /\ \E p \in Loads(Prices) :
         /\ Load(c, Prices, p)
         /\ Healthz(c, p) \/ Records(c, p) \/ MetadataRecords(c, p) \/ GetRecord(c, p)
    /\ UNCHANGED <<request, arrived, seen>>

\* /v1/records/{id} loads again for the status of its answer.
LoadAgain(c) ==
    /\ pc[c] = "again"
    /\ \E p \in Loads(Prices) :
         Reply(c, 200, p.status, ItemOf(loaded[c][Prices], Id(c)), {}, NoLineage)
    /\ UNCHANGED <<request, arrived, loaded, seen>>

LoadHistory(c) ==
    /\ pc[c] = "history"
    /\ \E p \in Loads(History) :
         /\ Load(c, History, p)
         /\ IF Kind(c) = "metadata" THEN Goto(c, "lineage") /\ UNCHANGED answer
            ELSE Reply(c, 200, p.status, {}, p.items, NoLineage)
    /\ UNCHANGED <<request, arrived, seen>>

\* The counts of /v1/metadata are known by the rows they count.
LoadLineage(c) ==
    /\ pc[c] = "lineage"
    /\ Reply(c, 200, loaded[c][Prices].status, loaded[c][Prices].items,
             loaded[c][History].items, lineage)
    /\ UNCHANGED <<request, arrived, loaded, seen>>

Handle(c) == Arrive(c) \/ Refresh(c) \/ LoadPrices(c) \/ LoadAgain(c)
                \/ LoadHistory(c) \/ LoadLineage(c)

-----------------------------------------------------------------------------
(* The lake and its copies                                                 *)

Ingest == Next /\ UNCHANGED <<event, config, copies, server>>

\* Catalog tables are registered apart from the ingest, one by one.  Neither copy
\* is made where nothing reads it.
Register ==
    /\ config.mode = "iceberg"
    /\ \E d \in Datasets : catalog' = catalog \cup { b \in committed : b[2] = d }
    /\ UNCHANGED <<lake, event, config, silver, server>>

\* transform_bronze_to_silver is a command of its own.
Transform ==
    /\ config.silver # "bronze"
    /\ silver' = { b \in committed : b[2] = Prices }
    /\ UNCHANGED <<lake, event, config, catalog, server>>

ApiNext ==
    \/ Ingest \/ Register \/ Transform
    \/ \E c \in Clients : Handle(c) /\ UNCHANGED <<lake, event, config, copies>>

ApiSpec == ApiInit /\ [][ApiNext]_vars

-----------------------------------------------------------------------------
(* Properties                                                              *)

\* The symbols an answer speaks of.
Scope(c) == IF Kind(c) = "healthz" THEN {}
            ELSE { s \in Symbols : Kind(c) = "record" => s = Id(c) }

ListOf(c, d) == IF d = Prices THEN answer[c].prices ELSE answer[c].history

\* An answer that rests on a load of dataset d that worked.
Told(c, d) == answer[c].code # 0 /\ loaded[c][d].status \in {"listed", "empty"}

\* A history lists every row; the latest prices list each or a later one.
Covers(c, d, rows) ==
    \A x \in rows : x[2] \in Scope(c) =>
        IF d = History THEN x \in ListOf(c, d)
        ELSE \E y \in ListOf(c, d) : y[2] = x[2] /\ Event(y) >= Event(x)

\* What was committed when a request arrived is in its answer, or something later
\* is, whatever commits between the loads of one handler, in every read mode but
\* the catalog's, which may lag; "not found" and "empty" then mean there was
\* nothing (README.md:99: Silver is served "only after parity passes").
AnswersAreFresh ==
    \A c \in Clients :
        /\ \A d \in Datasets : Told(c, d) /\ loaded[c][d].source # "iceberg"
              => Covers(c, d, RowsIn(arrived[c], d))
        /\ Told(c, Prices) /\ answer[c].status = "empty" /\ config.mode = "parquet"
              => RowsIn(arrived[c], Prices) = {}

\* A client never sees an older price, or a shorter history, than it was shown
\* before, whichever endpoints it asks and even when the catalog lags or fails
\* (README.md:50, "Fail-closed by default"); the explicit parquet fallback gives
\* that up.
ReadsNeverGoBack ==
    ~ (config.mode = "iceberg" /\ config.fallback = "parquet") =>
        \A c \in Clients, d \in Datasets : Told(c, d) => Covers(c, d, seen[c][d])

\* api.py:198, "record not found": there was no row of the symbol in the lake when
\* the request arrived.
NotFoundMeansAbsent ==
    \A c \in Clients : answer[c].code = 404 =>
        \A x \in RowsIn(arrived[c], Prices) : x[2] # Id(c)
=============================================================================
