---------------------------- MODULE StoreApiProofs ----------------------------
(***************************************************************************)
(* What a client reads is fresh and never goes back, for any number of     *)
(* clients, ingest runs and symbols and every configuration.               *)
(***************************************************************************)
EXTENDS StoreApi, NaturalsInduction, WellFoundedInduction, TLAPS

-----------------------------------------------------------------------------
(* Rows and loads                                                          *)

LEMMA EventType ==
    ASSUME ApiTypeOK, NEW x \in Rows
    PROVE  Event(x) \in Nat /\ Event(x) <= MaxEvent
<1>1. x[1] \in Runs /\ x[2] \in Symbols
  BY DEF Rows
<1>2. event[x[1]][x[2]] \in 0..MaxEvent
  BY <1>1 DEF ApiTypeOK
<1> QED BY <1>2, EventAssumption DEF Event

LEMMA RowsInMore ==
    ASSUME NEW a, NEW b, a \subseteq b, NEW d
    PROVE  RowsIn(a, d) \subseteq RowsIn(b, d)
BY DEF RowsIn

\* Rows that include one of a symbol include a newest one of it.
LEMMA NewestExists ==
    ASSUME ApiTypeOK, NEW rows \in SUBSET Rows, NEW x \in rows
    PROVE  \E y \in Newest(rows) : y[2] = x[2] /\ Event(y) >= Event(x)
<1> DEFINE same == { y \in rows : y[2] = x[2] }
           T == { MaxEvent - Event(y) : y \in same }
           Less == OpToRel(<, Nat)
<1>1. T \subseteq Nat /\ MaxEvent - Event(x) \in T
  <2>1. \A y \in same : MaxEvent - Event(y) \in Nat
    BY EventType, EventAssumption
  <2> QED BY <2>1
<1>2. PICK t \in T : \A u \in T : ~ (<<u, t>> \in Less)
  <2> HIDE DEF T, Less
  <2>1. IsWellFoundedOn(Less, Nat)
    BY NatLessThanWellFounded DEF Less
  <2> QED BY <1>1, <2>1, WFMin
<1>3. \A u \in T : ~ (u < t)
  <2> SUFFICES ASSUME NEW u \in T, u < t PROVE FALSE
    OBVIOUS
  <2>1. u \in Nat /\ t \in Nat
    BY <1>1
  <2>2. <<u, t>> \in Less
    BY <2>1 DEF OpToRel
  <2> QED BY <1>2, <2>2
<1>4. PICK y \in same : t = MaxEvent - Event(y)
  OBVIOUS
<1>5. \A z \in same : Event(z) <= Event(y)
  <2> SUFFICES ASSUME NEW z \in same PROVE Event(z) <= Event(y)
    OBVIOUS
  <2>1. ~ (MaxEvent - Event(z) < MaxEvent - Event(y))
    BY <1>3, <1>4
  <2>2. Event(z) \in Nat /\ Event(y) \in Nat
    BY EventType
  <2> QED BY <2>1, <2>2, EventAssumption
<1> QED BY <1>4, <1>5 DEF Newest

\* Each of the rows is among the items, or a later one of its symbol is.
Cover(items, d, rows) ==
    \A x \in rows : IF d = History THEN x \in items
                    ELSE \E y \in items : y[2] = x[2] /\ Event(y) >= Event(x)

Worked(p) == p.status \in {"listed", "empty"}

\* Where reads come from, unless the fallback mixes two sources.
Source == IF config.mode = "iceberg" THEN catalog ELSE committed
Mixed == config.mode = "iceberg" /\ config.fallback = "parquet"

LEMMA ListingCovers ==
    ASSUME ApiTypeOK, NEW batches, NEW d \in Datasets, NEW list \in Listings(batches, d)
    PROVE  /\ list \subseteq RowsIn(batches, d)
           /\ Cover(list, d, RowsIn(batches, d))
<1>1. CASE d = History
  BY <1>1 DEF Listings, Cover
<1>2. CASE d # History
  <2>1. /\ list \subseteq Newest(RowsIn(batches, d))
        /\ \A x \in RowsIn(batches, d) : \E y \in list : y[2] = x[2]
    BY <1>2 DEF Listings
  <2>2. \A x \in RowsIn(batches, d) : Event(x) \in Nat
    BY EventType DEF RowsIn
  <2>3. list \subseteq RowsIn(batches, d)
    BY <2>1 DEF Newest
  <2>4. ASSUME NEW x \in RowsIn(batches, d)
        PROVE  \E y \in list : y[2] = x[2] /\ Event(y) >= Event(x)
    <3>1. PICK y \in list : y[2] = x[2]
      BY <2>1
    <3>2. Event(x) <= Event(y)
      BY <2>1, <3>1 DEF Newest
    <3> QED BY <2>2, <2>3, <3>1, <3>2
  <2> QED BY <1>2, <2>3, <2>4 DEF Cover
<1> QED BY <1>1, <1>2

\* What each source returns.
LEMMA ListedFacts ==
    ASSUME ApiTypeOK, NEW batches, NEW d \in Datasets, NEW source,
           NEW p \in Listed(batches, d, source)
    PROVE  /\ p.status \in {"listed", "empty"} /\ p.source = source
           /\ p.status = "empty" => p.items = {}
           /\ p.items \subseteq RowsIn(batches, d)
           /\ Cover(p.items, d, RowsIn(batches, d))
           /\ p.items \in Listings(batches, d)
<1>1. PICK list \in Listings(batches, d) :
        p = [status |-> IF list = {} THEN "empty" ELSE "listed", items |-> list,
             source |-> source]
  BY DEF Listed
<1> QED BY <1>1, ListingCovers

LEMMA ListedPayload ==
    ASSUME NEW batches, NEW d \in Datasets, NEW p,
           NEW source \in {"bronze", "silver", "iceberg", "fallback"},
           p \in Listed(batches, d, source)
    PROVE  p \in Payloads
<1>1. PICK list \in Listings(batches, d) :
        p = [status |-> IF list = {} THEN "empty" ELSE "listed", items |-> list,
             source |-> source]
  BY DEF Listed
<1>2. RowsIn(batches, d) \in SUBSET Rows
  BY DEF RowsIn
<1>3. list \in SUBSET Rows
  BY <1>2 DEF Listings, Newest
<1>4. (IF list = {} THEN "empty" ELSE "listed") \in Statuses \cup {"none"}
  BY DEF Statuses
<1>5. source \in {"none", "bronze", "silver", "iceberg", "fallback"}
  OBVIOUS
<1> QED BY <1>1, <1>3, <1>4, <1>5 DEF Payloads

\* Silver that passes parity covers Bronze: the newest row of a symbol in Bronze is
\* one of the newest in Silver.
LEMMA SilverCovers ==
    ASSUME ApiTypeOK, Parity, NEW p \in Listed(silver, Prices, "silver")
    PROVE  /\ p.status \in {"listed", "empty"} /\ p.source = "silver"
           /\ p.status = "empty" => p.items = {}
           /\ p.items \subseteq RowsIn(committed, Prices)
           /\ Cover(p.items, Prices, RowsIn(committed, Prices))
<1>1. Prices \in Datasets /\ Prices # History
  BY DEF Datasets, Prices, History
<1>2. p.items \in Listings(silver, Prices)
  BY <1>1, ListedFacts
<1>3. /\ p.items \subseteq Newest(RowsIn(silver, Prices))
      /\ \A x \in RowsIn(silver, Prices) : \E y \in p.items : y[2] = x[2]
  BY <1>1, <1>2 DEF Listings
<1>4. Newest(RowsIn(silver, Prices)) = Newest(RowsIn(committed, Prices))
  BY DEF Parity
<1>5. p.items \subseteq RowsIn(committed, Prices)
  BY <1>3, <1>4 DEF Newest
<1>6. ASSUME NEW x \in RowsIn(committed, Prices)
      PROVE  \E y \in p.items : y[2] = x[2] /\ Event(y) >= Event(x)
  <2>1. RowsIn(committed, Prices) \in SUBSET Rows
    BY DEF RowsIn
  <2>2. PICK z \in Newest(RowsIn(committed, Prices)) : z[2] = x[2] /\ Event(z) >= Event(x)
    BY <2>1, NewestExists
  <2>3. z \in RowsIn(silver, Prices)
    BY <1>4 DEF Newest
  <2>4. PICK y \in p.items : y[2] = z[2]
    BY <1>3, <2>3
  <2>5. Event(z) <= Event(y)
    <3>1. z \in RowsIn(committed, Prices) /\ y \in Newest(RowsIn(committed, Prices))
      BY <1>3, <1>4 DEF Newest
    <3> QED BY <2>4, <3>1 DEF Newest
  <2>6. Event(x) \in Nat /\ Event(y) \in Nat /\ Event(z) \in Nat
    <3>1. x \in Rows /\ y \in Rows /\ z \in Rows
      BY <1>5, <2>1 DEF Newest
    <3> QED BY <3>1, EventType
  <2> QED BY <2>2, <2>4, <2>5, <2>6
<1>7. /\ p.status \in {"listed", "empty"} /\ p.source = "silver"
      /\ p.status = "empty" => p.items = {}
  BY DEF Listed
<1> QED BY <1>1, <1>5, <1>6, <1>7 DEF Cover

\* A load of Bronze works, and then lists what is committed, or fails.
LEMMA BronzeFacts ==
    ASSUME ApiTypeOK, NEW d \in Datasets, NEW source \in {"bronze", "fallback"},
           NEW p \in BronzeLoads(d, source)
    PROVE  /\ p \in Payloads /\ p.status \in Statuses /\ p.source = source
           /\ p.status = "empty" => p.items = {}
           /\ p.items \subseteq RowsIn(committed, d)
           /\ Worked(p) => Cover(p.items, d, RowsIn(committed, d))
<1>1. CASE p \in Listed(committed, d, source)
  <2>1. /\ p.status \in {"listed", "empty"} /\ p.source = source
        /\ p.status = "empty" => p.items = {}
        /\ p.items \subseteq RowsIn(committed, d)
        /\ Cover(p.items, d, RowsIn(committed, d))
    BY <1>1, ListedFacts
  <2>2. p \in Payloads
    BY <1>1, ListedPayload
  <2> QED BY <2>1, <2>2 DEF Statuses
<1>2. CASE p = Failed(source)
  BY <1>2 DEF Failed, Payloads, Statuses, Worked
<1> QED BY <1>1, <1>2 DEF BronzeLoads

\* A load that works covers what is committed, if not the catalog's; and what it
\* returns comes from one place.
LEMMA LoadFacts ==
    ASSUME ApiTypeOK, NEW d \in Datasets, NEW p \in Loads(d)
    PROVE  /\ p \in Payloads /\ p.status \in Statuses
           /\ p.status = "empty" => p.items = {}
           /\ config.mode = "parquet" => p.source # "iceberg"
           /\ Worked(p) /\ p.source # "iceberg" => Cover(p.items, d, RowsIn(committed, d))
           /\ ~ Mixed => /\ p.items \subseteq RowsIn(Source, d)
                         /\ Worked(p) => Cover(p.items, d, RowsIn(Source, d))
<1>1. /\ config.mode \in {"parquet", "iceberg"} /\ config.fallback \in {"error", "parquet"}
      /\ config.silver # "bronze" => config.mode = "parquet"
  BY SettingsAssumption, PilotsAssumption DEF ApiTypeOK
<1>2. CASE ServesSilver(d)
  <2>1. d = Prices /\ config.mode = "parquet" /\ p \in SilverLoads
    BY <1>1, <1>2 DEF ServesSilver, Loads
  <2>2. CASE p = Malformed
    BY <2>1, <2>2 DEF Malformed, Payloads, Statuses, Worked, Mixed
  <2>3. CASE Parity /\ p \in Listed(silver, Prices, "silver")
    <3>1. /\ p.status \in {"listed", "empty"} /\ p.source = "silver"
          /\ p.status = "empty" => p.items = {}
          /\ p.items \subseteq RowsIn(committed, Prices)
          /\ Cover(p.items, Prices, RowsIn(committed, Prices))
      BY <2>3, SilverCovers
    <3>2. p \in Payloads
      <4>1. p \in Listed(silver, d, "silver")
        BY <2>1, <2>3
      <4> QED BY <4>1, ListedPayload
    <3> QED BY <2>1, <3>1, <3>2 DEF Statuses, Source
  <2> QED BY <2>1, <2>2, <2>3 DEF SilverLoads
<1>3. CASE ~ ServesSilver(d) /\ config.mode = "iceberg"
  <2>1. \/ p \in Listed(catalog, d, "iceberg")
        \/ config.fallback = "parquet" /\ p \in BronzeLoads(d, "fallback")
        \/ p = Failed("iceberg")
    BY <1>3 DEF Loads, IcebergLoads
  <2>2. CASE p \in Listed(catalog, d, "iceberg")
    <3>1. /\ p.status \in {"listed", "empty"} /\ p.source = "iceberg"
          /\ p.status = "empty" => p.items = {}
          /\ p.items \subseteq RowsIn(catalog, d)
          /\ Cover(p.items, d, RowsIn(catalog, d))
      BY <2>2, ListedFacts
    <3>2. p \in Payloads
      BY <2>2, ListedPayload
    <3> QED BY <1>3, <3>1, <3>2 DEF Statuses, Source
  <2>3. CASE config.fallback = "parquet" /\ p \in BronzeLoads(d, "fallback")
    BY <1>3, <2>3, BronzeFacts DEF Mixed
  <2>4. CASE p = Failed("iceberg")
    BY <1>3, <2>4 DEF Failed, Payloads, Statuses, Worked
  <2> QED BY <2>1, <2>2, <2>3, <2>4
<1>4. CASE ~ ServesSilver(d) /\ config.mode # "iceberg"
  <2>1. p \in BronzeLoads(d, "bronze")
    BY <1>4 DEF Loads
  <2> QED BY <1>4, <2>1, BronzeFacts DEF Source
<1> QED BY <1>2, <1>3, <1>4

-----------------------------------------------------------------------------
(* Type correctness                                                        *)

LEMMA ReplyType ==
    ASSUME ApiTypeOK, NEW c \in Clients, NEW code, NEW status, NEW prices, NEW history, NEW names,
           Reply(c, code, status, prices, history, names),
           code \in {200, 202, 403, 404},
           status \in Statuses \cup {"none", "not_found", "forbidden", "accepted"},
           prices \in SUBSET Rows, history \in SUBSET Rows,
           names \in [Datasets -> Runs \cup {Nothing}]
    PROVE  /\ pc' \in [Clients -> {"idle", "prices", "history", "lineage", "again"}]
           /\ answer' \in [Clients -> Answers]
<1>1. [code |-> code, status |-> status, prices |-> prices, history |-> history,
       lineage |-> names] \in Answers
  BY DEF Answers
<1>2. answer' \in [Clients -> Answers]
  BY <1>1 DEF Reply, ApiTypeOK
<1> QED BY <1>2 DEF Reply, Goto, ApiTypeOK

LEMMA GotoType ==
    ASSUME ApiTypeOK, NEW c \in Clients,
           NEW step \in {"idle", "prices", "history", "lineage", "again"},
           Goto(c, step), UNCHANGED answer
    PROVE  /\ pc' \in [Clients -> {"idle", "prices", "history", "lineage", "again"}]
           /\ answer' \in [Clients -> Answers]
BY DEF Goto, ApiTypeOK

LEMMA LoadType ==
    ASSUME ApiTypeOK, NEW c \in Clients, NEW d \in Datasets, NEW p \in Payloads, Load(c, d, p)
    PROVE  loaded' \in [Clients -> [Datasets -> Payloads]]
BY DEF Load, ApiTypeOK

LEMMA NoLineageType == NoLineage \in [Datasets -> Runs \cup {Nothing}]
BY DEF NoLineage

\* A load's items, and those of them that a record is looked up in, are rows.
LEMMA ItemsAreRows ==
    ASSUME NEW p \in Payloads, NEW id
    PROVE  /\ p.items \in SUBSET Rows /\ ItemOf(p, id) \in SUBSET Rows
           /\ p.status \in Statuses \cup {"none"}
BY DEF Payloads, ItemOf

\* What the handlers do not touch keeps its type.
LEMMA HandlerType ==
    ASSUME ApiTypeOK, UNCHANGED <<lake, event, config, copies>>,
           pc' \in [Clients -> {"idle", "prices", "history", "lineage", "again"}],
           request' \in [Clients -> Requests \cup {NoRequest}],
           arrived' \in [Clients -> SUBSET committed],
           loaded' \in [Clients -> [Datasets -> Payloads]],
           answer' \in [Clients -> Answers],
           seen' \in [Clients -> [Datasets -> SUBSET Rows]]
    PROVE  ApiTypeOK'
BY DEF ApiTypeOK, TypeOK, lake, copies

LEMMA HandleType ==
    ASSUME ApiTypeOK, NEW c \in Clients, Handle(c), UNCHANGED <<lake, event, config, copies>>
    PROVE  ApiTypeOK'
<1>1. /\ request \in [Clients -> Requests \cup {NoRequest}]
      /\ arrived \in [Clients -> SUBSET committed]
      /\ loaded \in [Clients -> [Datasets -> Payloads]]
      /\ seen \in [Clients -> [Datasets -> SUBSET Rows]]
      /\ answer[c].prices \in SUBSET Rows /\ answer[c].history \in SUBSET Rows
  <2>1. answer[c] \in Answers
    BY DEF ApiTypeOK
  <2>2. answer[c].prices \in SUBSET Rows /\ answer[c].history \in SUBSET Rows
    BY <2>1 DEF Answers
  <2> QED BY <2>2 DEF ApiTypeOK
<1>2. [d \in Datasets |-> NotLoaded] \in [Datasets -> Payloads]
  BY DEF NotLoaded, Payloads
<1>3. NoAnswer \in Answers
  BY NoLineageType DEF NoAnswer, Answers
<1>4. /\ Prices \in Datasets /\ History \in Datasets
      /\ lineage \in [Datasets -> Runs \cup {Nothing}]
  BY DEF ApiTypeOK, TypeOK, Datasets
<1>5. arrived' \in [Clients -> SUBSET committed]
  BY <1>1 DEF Handle, Arrive, Refresh, LoadPrices, LoadAgain, LoadHistory, LoadLineage
<1>6. CASE Arrive(c)
  <2>1. PICK q \in Requests : /\ request' = [request EXCEPT ![c] = q]
                              /\ Goto(c, IF q[1] = "history" THEN "history" ELSE "prices")
    BY <1>6 DEF Arrive
  <2>2. pc' \in [Clients -> {"idle", "prices", "history", "lineage", "again"}]
    BY <2>1 DEF Goto, ApiTypeOK
  <2>3. request' \in [Clients -> Requests \cup {NoRequest}]
    BY <1>1, <2>1
  <2>4. loaded' \in [Clients -> [Datasets -> Payloads]]
    BY <1>1, <1>2, <1>6 DEF Arrive
  <2>5. answer' \in [Clients -> Answers]
    BY <1>3, <1>6 DEF Arrive, ApiTypeOK
  <2>6. seen' \in [Clients -> [Datasets -> SUBSET Rows]]
    <3>1. [d \in Datasets |-> seen[c][d] \cup
             (IF d = Prices THEN answer[c].prices ELSE answer[c].history)]
            \in [Datasets -> SUBSET Rows]
      BY <1>1
    <3> QED BY <1>1, <1>6, <3>1 DEF Arrive
  <2> QED BY <1>5, <2>2, <2>3, <2>4, <2>5, <2>6, HandlerType
<1>7. CASE Refresh(c)
  <2>1. \/ Reply(c, 202, "accepted", {}, {}, NoLineage)
        \/ Reply(c, 403, "forbidden", {}, {}, NoLineage)
    BY <1>7 DEF Refresh
  <2>2. /\ pc' \in [Clients -> {"idle", "prices", "history", "lineage", "again"}]
        /\ answer' \in [Clients -> Answers]
    BY <2>1, ReplyType, NoLineageType
  <2>3. request' \in [Clients -> Requests \cup {NoRequest}]
    <3>1. <<"refresh", Nothing>> \in Requests
      BY DEF Requests
    <3> QED BY <1>1, <1>7, <3>1 DEF Refresh
  <2>4. loaded' \in [Clients -> [Datasets -> Payloads]]
    BY <1>1, <1>2, <1>7 DEF Refresh
  <2> QED BY <1>1, <1>5, <1>7, <2>2, <2>3, <2>4, HandlerType DEF Refresh
<1>8. CASE LoadPrices(c)
  <2>1. PICK p \in Loads(Prices) :
          /\ Load(c, Prices, p)
          /\ Healthz(c, p) \/ Records(c, p) \/ MetadataRecords(c, p) \/ GetRecord(c, p)
    BY <1>8 DEF LoadPrices
  <2>2. p \in Payloads
    BY <1>4, LoadFacts
  <2>3. /\ p.items \in SUBSET Rows /\ ItemOf(p, Id(c)) \in SUBSET Rows
        /\ p.status \in Statuses \cup {"none"}
    BY <2>2, ItemsAreRows
  <2>4. /\ pc' \in [Clients -> {"idle", "prices", "history", "lineage", "again"}]
        /\ answer' \in [Clients -> Answers]
    <3>1. CASE Healthz(c, p) \/ Records(c, p)
      BY <2>3, <3>1, ReplyType, NoLineageType DEF Healthz, Records
    <3>2. CASE MetadataRecords(c, p)
      BY <3>2, GotoType DEF MetadataRecords
    <3>3. CASE GetRecord(c, p)
      <4>1. \/ Reply(c, 404, "not_found", {}, {}, NoLineage)
            \/ Goto(c, "again") /\ UNCHANGED answer
        BY <3>3 DEF GetRecord
      <4> QED BY <4>1, ReplyType, GotoType, NoLineageType
    <3> QED BY <2>1, <3>1, <3>2, <3>3
  <2>5. loaded' \in [Clients -> [Datasets -> Payloads]]
    BY <1>4, <2>1, <2>2, LoadType
  <2> QED BY <1>1, <1>5, <1>8, <2>4, <2>5, HandlerType DEF LoadPrices
<1>9. CASE LoadAgain(c)
  <2>1. PICK p \in Loads(Prices) :
          Reply(c, 200, p.status, ItemOf(loaded[c][Prices], Id(c)), {}, NoLineage)
    BY <1>9 DEF LoadAgain
  <2>2. p \in Payloads /\ loaded[c][Prices] \in Payloads
    BY <1>1, <1>4, LoadFacts
  <2>3. /\ ItemOf(loaded[c][Prices], Id(c)) \in SUBSET Rows
        /\ p.status \in Statuses \cup {"none"}
    BY <2>2, ItemsAreRows
  <2>4. /\ pc' \in [Clients -> {"idle", "prices", "history", "lineage", "again"}]
        /\ answer' \in [Clients -> Answers]
    BY <2>1, <2>3, ReplyType, NoLineageType
  <2> QED BY <1>1, <1>5, <1>9, <2>4, HandlerType DEF LoadAgain
<1>10. CASE LoadHistory(c)
  <2>1. PICK p \in Loads(History) :
          /\ Load(c, History, p)
          /\ IF Kind(c) = "metadata" THEN Goto(c, "lineage") /\ UNCHANGED answer
             ELSE Reply(c, 200, p.status, {}, p.items, NoLineage)
    BY <1>10 DEF LoadHistory
  <2>2. p \in Payloads
    BY <1>4, LoadFacts
  <2>3. p.items \in SUBSET Rows /\ p.status \in Statuses \cup {"none"}
    BY <2>2, ItemsAreRows
  <2>4. /\ pc' \in [Clients -> {"idle", "prices", "history", "lineage", "again"}]
        /\ answer' \in [Clients -> Answers]
    <3>1. \/ Goto(c, "lineage") /\ UNCHANGED answer
          \/ Reply(c, 200, p.status, {}, p.items, NoLineage)
      BY <2>1
    <3> QED BY <2>3, <3>1, ReplyType, GotoType, NoLineageType
  <2>5. loaded' \in [Clients -> [Datasets -> Payloads]]
    BY <1>4, <2>1, <2>2, LoadType
  <2> QED BY <1>1, <1>5, <1>10, <2>4, <2>5, HandlerType DEF LoadHistory
<1>11. CASE LoadLineage(c)
  <2>1. loaded[c][Prices] \in Payloads /\ loaded[c][History] \in Payloads
    BY <1>1, <1>4
  <2>2. /\ loaded[c][Prices].items \in SUBSET Rows /\ loaded[c][History].items \in SUBSET Rows
        /\ loaded[c][Prices].status \in Statuses \cup {"none"}
    BY <2>1, ItemsAreRows
  <2>3. /\ pc' \in [Clients -> {"idle", "prices", "history", "lineage", "again"}]
        /\ answer' \in [Clients -> Answers]
    BY <1>4, <1>11, <2>2, ReplyType DEF LoadLineage
  <2> QED BY <1>1, <1>5, <1>11, <2>3, HandlerType DEF LoadLineage
<1> QED BY <1>6, <1>7, <1>8, <1>9, <1>10, <1>11 DEF Handle

\* The lake and its copies only grow, and no copy has more than the lake.
LEMMA LakeStep ==
    ASSUME ApiTypeOK, Ingest \/ Register \/ Transform
    PROVE  /\ committed \subseteq committed' /\ catalog \subseteq catalog'
           /\ UNCHANGED <<event, config, server>>
           /\ ApiTypeOK'
<1>1. CASE Ingest
  <2>1. /\ committed \subseteq committed' /\ TypeOK'
    <3>1. PICK r \in Runs, d \in Datasets : Commit(r, d) \/ NameInLineage(r, d)
      BY <1>1 DEF Ingest, Next
    <3> QED BY <3>1 DEF Commit, NameInLineage, ApiTypeOK, TypeOK
  <2>2. UNCHANGED <<event, config, copies, server>>
    BY <1>1 DEF Ingest
  <2>3. arrived' \in [Clients -> SUBSET committed']
    BY <2>1, <2>2 DEF ApiTypeOK, server
  <2> QED BY <2>1, <2>2, <2>3 DEF ApiTypeOK, server, copies
<1>2. CASE Register
  BY <1>2 DEF Register, ApiTypeOK, TypeOK, lake, server
<1>3. CASE Transform
  BY <1>3 DEF Transform, ApiTypeOK, TypeOK, lake, server
<1> QED BY <1>1, <1>2, <1>3

\* Every variable keeps its type, and every answer one of the documented statuses.
THEOREM TypeCorrect == ApiSpec => []ApiTypeOK
<1>1. ApiInit => ApiTypeOK
  <2> SUFFICES ASSUME ApiInit PROVE ApiTypeOK
    OBVIOUS
  <2>1. NotLoaded \in Payloads /\ NoAnswer \in Answers
    BY NoLineageType DEF NotLoaded, Payloads, NoAnswer, Answers
  <2>2. TypeOK
    BY DEF ApiInit, Init, TypeOK
  <2> QED BY <2>1, <2>2 DEF ApiInit, ApiTypeOK
<1>2. ApiTypeOK /\ [ApiNext]_vars => ApiTypeOK'
  <2>1. ASSUME ApiTypeOK, UNCHANGED vars PROVE ApiTypeOK'
    BY <2>1 DEF vars, ApiTypeOK, TypeOK, lake, copies, server
  <2> QED BY <2>1, LakeStep, HandleType DEF ApiNext
<1> QED BY <1>1, <1>2, PTL DEF ApiSpec

-----------------------------------------------------------------------------
(* The inductive invariant                                                 *)

\* What a handler has loaded covers what was committed when its request arrived, and
\* what its client has seen.
Held(c, d) ==
    /\ loaded[c][d].status = "empty" => loaded[c][d].items = {}
    /\ config.mode = "parquet" => loaded[c][d].source # "iceberg"
    /\ Worked(loaded[c][d]) /\ loaded[c][d].source # "iceberg"
          => Cover(loaded[c][d].items, d, RowsIn(arrived[c], d))
    /\ ~ Mixed => /\ loaded[c][d].items \subseteq RowsIn(Source, d)
                  /\ seen[c][d] \subseteq RowsIn(Source, d)
                  /\ Worked(loaded[c][d]) => Cover(loaded[c][d].items, d, seen[c][d])

\* An answer shows what was loaded, and nothing that is not in the lake.
Shown(c, d) ==
    /\ ~ Mixed => ListOf(c, d) \subseteq RowsIn(Source, d)
    /\ Told(c, d) => \A x \in loaded[c][d].items : x[2] \in Scope(c) => x \in ListOf(c, d)

EmptyIsEmpty(c) ==
    Told(c, Prices) /\ answer[c].status = "empty" /\ config.mode = "parquet"
        => RowsIn(arrived[c], Prices) = {}

\* Where a handler is, its answer is still open, and it has loaded no more than this.
Place(c) ==
    /\ pc[c] # "idle" => answer[c] = NoAnswer
    /\ pc[c] = "prices" => \A d \in Datasets : loaded[c][d] = NotLoaded
    /\ pc[c] = "again" => Kind(c) = "record" /\ loaded[c][History] = NotLoaded
    /\ pc[c] = "history" /\ Kind(c) # "metadata" => loaded[c][Prices] = NotLoaded

ClientInv(c) ==
    /\ Place(c) /\ EmptyIsEmpty(c)
    /\ \A d \in Datasets : Held(c, d) /\ Shown(c, d)

IInv == \A c \in Clients : ClientInv(c)

LEMMA InitIInv == ApiInit => IInv
<1> SUFFICES ASSUME ApiInit, NEW c \in Clients PROVE ClientInv(c)
  BY DEF IInv
<1>1. /\ pc[c] = "idle" /\ answer[c] = NoAnswer
      /\ \A d \in Datasets : loaded[c][d] = NotLoaded /\ seen[c][d] = {}
  BY DEF ApiInit
<1>2. Prices \in Datasets
  BY DEF Datasets
<1>3. ASSUME NEW d \in Datasets PROVE Held(c, d) /\ Shown(c, d)
  BY <1>1 DEF Held, Shown, Told, ListOf, NotLoaded, NoAnswer, Worked
<1> QED BY <1>1, <1>2, <1>3 DEF ClientInv, Place, EmptyIsEmpty, Told, NoAnswer

\* A lake that grows disturbs no client, nor does another client's handler.
LEMMA Undisturbed ==
    ASSUME NEW c \in Clients, ClientInv(c), committed \subseteq committed', catalog \subseteq catalog',
           UNCHANGED <<event, config>>, pc'[c] = pc[c], request'[c] = request[c],
           arrived'[c] = arrived[c], loaded'[c] = loaded[c], answer'[c] = answer[c],
           seen'[c] = seen[c]
    PROVE  ClientInv(c)'
<1>1. ASSUME NEW d \in Datasets PROVE RowsIn(Source, d) \subseteq RowsIn(Source, d)'
  BY DEF Source, RowsIn, Event
<1>2. ASSUME NEW d \in Datasets PROVE RowsIn(arrived[c], d)' = RowsIn(arrived[c], d)
  BY DEF RowsIn, Event
<1>3. Mixed' <=> Mixed
  BY DEF Mixed
<1>4. ASSUME NEW d \in Datasets PROVE Held(c, d)'
  <2>1. Cover(loaded[c][d].items, d, RowsIn(arrived[c], d))
          => Cover(loaded[c][d].items, d, RowsIn(arrived[c], d))'
    BY <1>2 DEF Cover, Event
  <2>2. Cover(loaded[c][d].items, d, seen[c][d]) => Cover(loaded[c][d].items, d, seen[c][d])'
    BY DEF Cover, Event
  <2>3. Held(c, d)
    BY DEF ClientInv
  <2> QED BY <1>1, <1>3, <2>1, <2>2, <2>3 DEF Held, Worked
<1>5. ASSUME NEW d \in Datasets PROVE Shown(c, d)'
  <2>1. Shown(c, d)
    BY DEF ClientInv
  <2> QED BY <1>1, <1>3, <2>1 DEF Shown, Told, ListOf, Scope, Kind, Id
<1>6. EmptyIsEmpty(c)'
  <2>1. Prices \in Datasets
    BY DEF Datasets
  <2> QED BY <1>2, <2>1 DEF ClientInv, EmptyIsEmpty, Told
<1>7. Place(c)'
  BY DEF ClientInv, Place, Kind
<1> QED BY <1>4, <1>5, <1>6, <1>7 DEF ClientInv

\* A handler serves one client.
LEMMA OtherClients ==
    ASSUME ApiTypeOK, NEW c \in Clients, Handle(c), NEW k \in Clients, k # c
    PROVE  /\ pc'[k] = pc[k] /\ request'[k] = request[k] /\ arrived'[k] = arrived[k]
           /\ loaded'[k] = loaded[k] /\ answer'[k] = answer[k] /\ seen'[k] = seen[k]
<1>1. /\ pc = [q \in Clients |-> pc[q]] /\ request = [q \in Clients |-> request[q]]
      /\ arrived = [q \in Clients |-> arrived[q]] /\ loaded = [q \in Clients |-> loaded[q]]
      /\ answer = [q \in Clients |-> answer[q]] /\ seen = [q \in Clients |-> seen[q]]
  BY DEF ApiTypeOK
<1> USE DEF Goto, Reply, Load
<1>2. CASE Arrive(c)
  BY <1>1, <1>2 DEF Arrive
<1>3. CASE Refresh(c)
  BY <1>1, <1>3 DEF Refresh
<1>4. CASE LoadPrices(c)
  BY <1>1, <1>4 DEF LoadPrices, Healthz, Records, MetadataRecords, GetRecord
<1>5. CASE LoadAgain(c) \/ LoadLineage(c)
  BY <1>1, <1>5 DEF LoadAgain, LoadLineage
<1>6. CASE LoadHistory(c)
  BY <1>1, <1>6 DEF LoadHistory
<1> QED BY <1>2, <1>3, <1>4, <1>5, <1>6 DEF Handle

\* The effect of an answer, and of a load.
LEMMA ReplyEffect ==
    ASSUME ApiTypeOK, NEW c \in Clients, NEW code, NEW status, NEW prices, NEW history, NEW names,
           Reply(c, code, status, prices, history, names)
    PROVE  /\ pc'[c] = "idle"
           /\ answer'[c].code = code /\ answer'[c].status = status
           /\ answer'[c].prices = prices /\ answer'[c].history = history
BY DEF Reply, Goto, ApiTypeOK

LEMMA LoadEffect ==
    ASSUME ApiTypeOK, NEW c \in Clients, NEW d \in Datasets, NEW p, Load(c, d, p)
    PROVE  /\ loaded'[c][d] = p
           /\ \A e \in Datasets : e # d => loaded'[c][e] = loaded[c][e]
BY DEF Load, ApiTypeOK

\* A load that has been made is held to what was committed and seen before.
LEMMA LoadHeld ==
    ASSUME ApiTypeOK, NEW c \in Clients, NEW d \in Datasets, NEW p \in Loads(d), Load(c, d, p),
           \A e \in Datasets : Held(c, e),
           UNCHANGED <<lake, event, config, copies, arrived, seen>>
    PROVE  \A e \in Datasets : Held(c, e)'
<1> SUFFICES ASSUME NEW e \in Datasets PROVE Held(c, e)'
  OBVIOUS
<1>1. /\ RowsIn(arrived[c], e)' = RowsIn(arrived[c], e) /\ RowsIn(Source, e)' = RowsIn(Source, e)
      /\ Mixed' <=> Mixed
  BY DEF RowsIn, Event, Source, Mixed, lake, copies
<1>2. \A items, rows : Cover(items, e, rows)' <=> Cover(items, e, rows)
  BY DEF Cover, Event
<1>3. CASE e # d
  <2>1. loaded'[c][e] = loaded[c][e]
    BY <1>3, LoadEffect
  <2> QED BY <1>1, <1>2, <2>1 DEF Held, Worked
<1>4. CASE e = d
  <2>1. loaded'[c][d] = p
    BY LoadEffect
  <2>2. RowsIn(arrived[c], d) \subseteq RowsIn(committed, d)
    BY RowsInMore DEF ApiTypeOK
  <2>3. ~ Mixed => seen[c][d] \subseteq RowsIn(Source, d)
    BY DEF Held
  <2>4. \A items, rows, more : Cover(items, d, more) /\ rows \subseteq more => Cover(items, d, rows)
    BY DEF Cover
  <2>5. /\ p.status = "empty" => p.items = {}
        /\ config.mode = "parquet" => p.source # "iceberg"
        /\ Worked(p) /\ p.source # "iceberg" => Cover(p.items, d, RowsIn(arrived[c], d))
        /\ ~ Mixed => /\ p.items \subseteq RowsIn(Source, d)
                      /\ Worked(p) => Cover(p.items, d, seen[c][d])
    BY <2>2, <2>3, <2>4, LoadFacts
  <2> QED BY <1>1, <1>2, <1>4, <2>1, <2>3, <2>5 DEF Held, Worked
<1> QED BY <1>3, <1>4

LEMMA HandleInv ==
    ASSUME ApiTypeOK, NEW c \in Clients, ClientInv(c), Handle(c),
           UNCHANGED <<lake, event, config, copies>>
    PROVE  ClientInv(c)'
<1>1. /\ Prices \in Datasets /\ History \in Datasets /\ Prices # History
      /\ Datasets = {Prices, History}
  BY DEF Datasets, Prices, History
<1>2. /\ Place(c) /\ EmptyIsEmpty(c)
      /\ \A d \in Datasets : Held(c, d) /\ Shown(c, d)
  BY DEF ClientInv
<1>3. \A d \in Datasets : RowsIn(Source, d)' = RowsIn(Source, d)
  BY DEF RowsIn, Source, Event, lake, copies
<1>4. Mixed' <=> Mixed
  BY DEF Mixed
<1>5. \A items, d, rows : Cover(items, d, rows)' <=> Cover(items, d, rows)
  BY DEF Cover, Event
\* A handler that has not loaded has nothing to answer for.
<1>6. ASSUME \A d \in Datasets : loaded'[c][d] = NotLoaded /\ ListOf(c, d)' = {},
             ~ Mixed => \A d \in Datasets : seen'[c][d] \subseteq RowsIn(Source, d),
             pc'[c] # "idle" => answer'[c] = NoAnswer, pc'[c] # "again"
      PROVE  ClientInv(c)'
  <2>1. ASSUME NEW d \in Datasets PROVE Held(c, d)' /\ Shown(c, d)'
    BY <1>3, <1>4, <1>6 DEF Held, Shown, Told, NotLoaded, Worked
  <2> QED BY <1>1, <1>6, <2>1 DEF ClientInv, Place, EmptyIsEmpty, Told, NotLoaded
<1>7. CASE Arrive(c)
  <2>1. /\ pc'[c] \in {"history", "prices"} /\ answer'[c] = NoAnswer
        /\ \A d \in Datasets : loaded'[c][d] = NotLoaded
        /\ \A d \in Datasets : seen'[c][d] = seen[c][d] \cup ListOf(c, d)
    BY <1>7 DEF Arrive, Goto, ApiTypeOK, ListOf
  <2>2. \A d \in Datasets : ListOf(c, d)' = {}
    BY <2>1 DEF ListOf, NoAnswer
  <2>3. ~ Mixed => \A d \in Datasets : seen'[c][d] \subseteq RowsIn(Source, d)
    BY <1>2, <2>1 DEF Held, Shown
  <2> QED BY <1>6, <2>1, <2>2, <2>3
<1>8. CASE Refresh(c)
  <2>1. \/ Reply(c, 202, "accepted", {}, {}, NoLineage)
        \/ Reply(c, 403, "forbidden", {}, {}, NoLineage)
    BY <1>8 DEF Refresh
  <2>2. pc'[c] = "idle" /\ \A d \in Datasets : ListOf(c, d)' = {}
    BY <2>1, ReplyEffect DEF ListOf
  <2>3. \A d \in Datasets : loaded'[c][d] = NotLoaded
    BY <1>8 DEF Refresh, ApiTypeOK
  <2>4. ~ Mixed => \A d \in Datasets : seen'[c][d] \subseteq RowsIn(Source, d)
    BY <1>2, <1>8 DEF Refresh, Held
  <2> QED BY <1>6, <2>2, <2>3, <2>4
<1>9. CASE LoadPrices(c)
  <2>1. PICK p \in Loads(Prices) :
          /\ Load(c, Prices, p)
          /\ Healthz(c, p) \/ Records(c, p) \/ MetadataRecords(c, p) \/ GetRecord(c, p)
    BY <1>9 DEF LoadPrices
  <2>2. pc[c] = "prices" /\ UNCHANGED <<lake, event, config, copies, request, arrived, seen>>
    BY <1>9 DEF LoadPrices
  <2>3. /\ loaded'[c][Prices] = p /\ loaded'[c][History] = NotLoaded
        /\ answer[c] = NoAnswer
    BY <1>1, <1>2, <2>1, <2>2, LoadEffect DEF Place
  <2>4. \A d \in Datasets : Held(c, d)'
    BY <1>1, <1>2, <2>1, <2>2, LoadHeld
  <2>5. /\ p.status = "empty" => p.items = {}
        /\ ~ Mixed => p.items \subseteq RowsIn(Source, Prices)
    BY <1>1, LoadFacts
  <2>6. Shown(c, History)'
    <3>1. ListOf(c, History)' = {}
      <4>1. CASE Healthz(c, p) \/ Records(c, p)
        BY <1>1, <4>1, ReplyEffect DEF Healthz, Records, ListOf
      <4>2. CASE MetadataRecords(c, p)
        BY <1>1, <2>3, <4>2 DEF MetadataRecords, ListOf, NoAnswer
      <4>3. CASE GetRecord(c, p)
        <5>1. \/ Reply(c, 404, "not_found", {}, {}, NoLineage)
              \/ UNCHANGED answer
          BY <4>3 DEF GetRecord
        <5> QED BY <1>1, <2>3, <5>1, ReplyEffect DEF ListOf, NoAnswer
      <4> QED BY <2>1, <4>1, <4>2, <4>3
    <3> QED BY <2>3, <3>1 DEF Shown, Told, NotLoaded
  <2>7. p.status = "empty" /\ config.mode = "parquet" => RowsIn(arrived[c], Prices)' = {}
    <3> SUFFICES ASSUME p.status = "empty", config.mode = "parquet"
                 PROVE  RowsIn(arrived[c], Prices)' = {}
      OBVIOUS
    <3>1. Cover(p.items, Prices, RowsIn(arrived[c], Prices))'
      BY <1>1, <2>3, <2>4 DEF Held, Worked
    <3> QED BY <1>1, <2>5, <3>1 DEF Cover
  <2>8. CASE Healthz(c, p)
    <3>1. /\ pc'[c] = "idle" /\ answer'[c].prices = {} /\ answer'[c].status = p.status
          /\ Kind(c)' = "healthz"
      BY <2>2, <2>8, ReplyEffect DEF Healthz, Kind
    <3>2. Shown(c, Prices)' /\ Place(c)' /\ EmptyIsEmpty(c)'
      BY <2>7, <3>1 DEF Shown, Place, EmptyIsEmpty, ListOf, Scope
    <3> QED BY <1>1, <2>4, <2>6, <3>2 DEF ClientInv
  <2>9. CASE Records(c, p)
    <3>1. pc'[c] = "idle" /\ answer'[c].prices = p.items /\ answer'[c].status = p.status
      BY <2>9, ReplyEffect DEF Records
    <3>2. Shown(c, Prices)' /\ Place(c)' /\ EmptyIsEmpty(c)'
      BY <1>1, <1>3, <1>4, <2>3, <2>5, <2>7, <3>1 DEF Shown, Place, EmptyIsEmpty, ListOf
    <3> QED BY <1>1, <2>4, <2>6, <3>2 DEF ClientInv
  <2>10. CASE MetadataRecords(c, p) \/ (GetRecord(c, p) /\ ItemOf(p, Id(c)) # {})
    <3>1. /\ answer'[c] = NoAnswer /\ pc'[c] \in {"history", "again"}
          /\ pc'[c] = "history" => Kind(c)' = "metadata"
          /\ pc'[c] = "again" => Kind(c)' = "record"
      BY <2>2, <2>3, <2>10 DEF MetadataRecords, GetRecord, Goto, Kind, ApiTypeOK
    <3>2. Shown(c, Prices)'
      BY <1>1, <3>1 DEF Shown, Told, ListOf, NoAnswer
    <3>3. Place(c)' /\ EmptyIsEmpty(c)'
      BY <2>3, <3>1 DEF Place, EmptyIsEmpty, Told, NoAnswer
    <3> QED BY <1>1, <2>4, <2>6, <3>2, <3>3 DEF ClientInv
  <2>11. CASE GetRecord(c, p) /\ ItemOf(p, Id(c)) = {}
    <3>1. /\ pc'[c] = "idle" /\ answer'[c].prices = {} /\ answer'[c].status = "not_found"
          /\ Kind(c)' = "record" /\ Id(c)' = Id(c)
      BY <2>2, <2>11, ReplyEffect DEF GetRecord, Kind, Id
    <3>2. Shown(c, Prices)'
      BY <2>3, <2>11, <3>1 DEF Shown, ListOf, Scope, ItemOf
    <3>3. Place(c)' /\ EmptyIsEmpty(c)'
      BY <3>1 DEF Place, EmptyIsEmpty
    <3> QED BY <1>1, <2>4, <2>6, <3>2, <3>3 DEF ClientInv
  <2> QED BY <2>1, <2>8, <2>9, <2>10, <2>11
\* From here on the loads of the handler are a part of what it answers.
<1>10. CASE LoadAgain(c)
  <2>1. PICK p \in Loads(Prices) :
          Reply(c, 200, p.status, ItemOf(loaded[c][Prices], Id(c)), {}, NoLineage)
    BY <1>10 DEF LoadAgain
  <2>2. /\ pc[c] = "again" /\ Kind(c) = "record" /\ loaded[c][History] = NotLoaded
        /\ UNCHANGED <<lake, event, config, copies, request, arrived, loaded, seen>>
    BY <1>2, <1>10 DEF LoadAgain, Place
  <2>3. /\ pc'[c] = "idle" /\ answer'[c].status = p.status /\ answer'[c].history = {}
        /\ answer'[c].prices = ItemOf(loaded[c][Prices], Id(c))
    BY <2>1, ReplyEffect
  <2>4. ASSUME NEW d \in Datasets PROVE Held(c, d)'
    <3>1. RowsIn(arrived[c], d)' = RowsIn(arrived[c], d)
      BY <2>2 DEF RowsIn, Event
    <3> QED BY <1>2, <1>3, <1>4, <1>5, <2>2, <3>1 DEF Held, Worked
  <2>5. Shown(c, Prices)'
    <3>1. ~ Mixed => loaded[c][Prices].items \subseteq RowsIn(Source, Prices)
      BY <1>1, <1>2 DEF Held
    <3> QED BY <1>1, <1>3, <1>4, <2>2, <2>3, <3>1 DEF Shown, ListOf, ItemOf, Scope, Kind, Id
  <2>6. Shown(c, History)'
    BY <1>1, <2>2, <2>3 DEF Shown, ListOf, Told, NotLoaded
  <2>7. EmptyIsEmpty(c)'
    <3> SUFFICES ASSUME p.status = "empty", config.mode = "parquet"
                 PROVE  RowsIn(arrived[c], Prices)' = {}
      BY <2>3 DEF EmptyIsEmpty
    <3>1. p.items = {} /\ Cover(p.items, Prices, RowsIn(committed, Prices))
      BY <1>1, LoadFacts DEF Worked
    <3>2. RowsIn(committed, Prices) = {}
      BY <1>1, <3>1 DEF Cover
    <3>3. RowsIn(arrived[c], Prices) \subseteq RowsIn(committed, Prices)
      BY RowsInMore DEF ApiTypeOK
    <3>4. RowsIn(arrived[c], Prices)' = RowsIn(arrived[c], Prices)
      BY <2>2 DEF RowsIn, Event
    <3> QED BY <3>2, <3>3, <3>4
  <2> QED BY <1>1, <2>3, <2>4, <2>5, <2>6, <2>7 DEF ClientInv, Place
<1>11. CASE LoadHistory(c)
  <2>1. PICK p \in Loads(History) :
          /\ Load(c, History, p)
          /\ IF Kind(c) = "metadata" THEN Goto(c, "lineage") /\ UNCHANGED answer
             ELSE Reply(c, 200, p.status, {}, p.items, NoLineage)
    BY <1>11 DEF LoadHistory
  <2>2. /\ pc[c] = "history" /\ answer[c] = NoAnswer
        /\ UNCHANGED <<lake, event, config, copies, request, arrived, seen>>
    BY <1>2, <1>11 DEF LoadHistory, Place
  <2>3. loaded'[c][History] = p /\ loaded'[c][Prices] = loaded[c][Prices]
    BY <1>1, <2>1, LoadEffect
  <2>4. \A d \in Datasets : Held(c, d)'
    BY <1>1, <1>2, <2>1, <2>2, LoadHeld
  <2>5. ~ Mixed => p.items \subseteq RowsIn(Source, History)
    BY <1>1, LoadFacts
  <2>6. CASE Kind(c) = "metadata"
    <3>1. answer'[c] = NoAnswer /\ pc'[c] = "lineage"
      BY <2>1, <2>2, <2>6 DEF Goto, ApiTypeOK
    <3>2. ASSUME NEW d \in Datasets PROVE Shown(c, d)'
      BY <3>1 DEF Shown, Told, ListOf, NoAnswer
    <3> QED BY <2>4, <3>1, <3>2 DEF ClientInv, Place, EmptyIsEmpty, Told, NoAnswer
  <2>7. CASE Kind(c) # "metadata"
    <3>1. /\ pc'[c] = "idle" /\ answer'[c].prices = {} /\ answer'[c].history = p.items
          /\ loaded'[c][Prices] = NotLoaded
      BY <1>2, <2>1, <2>2, <2>3, <2>7, ReplyEffect DEF Place
    <3>2. Shown(c, Prices)' /\ EmptyIsEmpty(c)'
      BY <1>1, <3>1 DEF Shown, EmptyIsEmpty, Told, ListOf, NotLoaded
    <3>3. Shown(c, History)'
      BY <1>1, <1>3, <1>4, <2>3, <2>5, <3>1 DEF Shown, ListOf
    <3> QED BY <1>1, <2>4, <3>1, <3>2, <3>3 DEF ClientInv, Place
  <2> QED BY <2>6, <2>7
<1>12. CASE LoadLineage(c)
  <2>1. UNCHANGED <<lake, event, config, copies, request, arrived, loaded, seen>>
    BY <1>12 DEF LoadLineage
  <2>2. /\ pc'[c] = "idle" /\ answer'[c].status = loaded[c][Prices].status
        /\ answer'[c].prices = loaded[c][Prices].items
        /\ answer'[c].history = loaded[c][History].items
    BY <1>12, ReplyEffect DEF LoadLineage
  <2>3. \A d \in Datasets : RowsIn(arrived[c], d)' = RowsIn(arrived[c], d)
    BY <2>1 DEF RowsIn, Event
  <2>4. ASSUME NEW d \in Datasets PROVE Held(c, d)'
    BY <1>2, <1>3, <1>4, <1>5, <2>1, <2>3 DEF Held, Worked
  <2>5. ASSUME NEW d \in Datasets PROVE Shown(c, d)'
    <3>1. ~ Mixed => loaded[c][d].items \subseteq RowsIn(Source, d)
      BY <1>2 DEF Held
    <3>2. ListOf(c, d)' = loaded[c][d].items
      BY <1>1, <2>2 DEF ListOf
    <3> QED BY <1>3, <1>4, <2>1, <3>1, <3>2 DEF Shown
  <2>6. EmptyIsEmpty(c)'
    <3> SUFFICES ASSUME loaded[c][Prices].status = "empty", config.mode = "parquet"
                 PROVE  RowsIn(arrived[c], Prices) = {}
      BY <1>1, <2>1, <2>2, <2>3 DEF EmptyIsEmpty
    <3>1. /\ loaded[c][Prices].items = {}
          /\ Cover(loaded[c][Prices].items, Prices, RowsIn(arrived[c], Prices))
      BY <1>1, <1>2 DEF Held, Worked
    <3> QED BY <1>1, <3>1 DEF Cover
  <2> QED BY <2>2, <2>4, <2>5, <2>6 DEF ClientInv, Place
<1> QED BY <1>7, <1>8, <1>9, <1>10, <1>11, <1>12 DEF Handle

\* The inductive invariant: every answer rests on loads that are late enough.
THEOREM Inductive == ApiSpec => []IInv
<1>1. ApiTypeOK /\ IInv /\ [ApiNext]_vars => IInv'
  <2> SUFFICES ASSUME ApiTypeOK, IInv, [ApiNext]_vars, NEW k \in Clients PROVE ClientInv(k)'
    BY DEF IInv
  <2>1. ClientInv(k)
    BY DEF IInv
  <2>2. CASE Ingest \/ Register \/ Transform
    <3>1. /\ committed \subseteq committed' /\ catalog \subseteq catalog'
          /\ UNCHANGED <<event, config, server>>
      BY <2>2, LakeStep
    <3> QED BY <2>1, <3>1, Undisturbed DEF server
  <2>3. ASSUME NEW c \in Clients, Handle(c), UNCHANGED <<lake, event, config, copies>>
        PROVE  ClientInv(k)'
    <3>1. CASE k = c
      BY <2>1, <2>3, <3>1, HandleInv
    <3>2. CASE k # c
      BY <2>1, <2>3, <3>2, OtherClients, Undisturbed DEF lake, copies
    <3> QED BY <3>1, <3>2
  <2>4. CASE UNCHANGED vars
    BY <2>1, <2>4, Undisturbed DEF vars, lake, copies, server
  <2> QED BY <2>2, <2>3, <2>4 DEF ApiNext
<1> QED BY <1>1, InitIInv, TypeCorrect, PTL DEF ApiSpec

-----------------------------------------------------------------------------
\* Answers cover what was committed when their request arrived.
THEOREM AnswersAreFreshAlways == ApiSpec => []AnswersAreFresh
<1>1. IInv => AnswersAreFresh
  <2> SUFFICES ASSUME IInv, NEW c \in Clients
               PROVE  /\ \A d \in Datasets : Told(c, d) /\ loaded[c][d].source # "iceberg"
                            => Covers(c, d, RowsIn(arrived[c], d))
                      /\ EmptyIsEmpty(c)
    BY DEF AnswersAreFresh, EmptyIsEmpty
  <2>1. ASSUME NEW d \in Datasets, Told(c, d), loaded[c][d].source # "iceberg"
        PROVE  Covers(c, d, RowsIn(arrived[c], d))
    <3>1. Cover(loaded[c][d].items, d, RowsIn(arrived[c], d))
      BY <2>1 DEF IInv, ClientInv, Held, Told, Worked
    <3>2. \A x \in loaded[c][d].items : x[2] \in Scope(c) => x \in ListOf(c, d)
      BY <2>1 DEF IInv, ClientInv, Shown
    <3> QED BY <3>1, <3>2 DEF Cover, Covers
  <2> QED BY <2>1 DEF IInv, ClientInv
<1> QED BY <1>1, Inductive, PTL

\* No client is shown less than it was shown before.
THEOREM ReadsNeverGoBackAlways == ApiSpec => []ReadsNeverGoBack
<1>1. IInv => ReadsNeverGoBack
  <2> SUFFICES ASSUME IInv, ~ Mixed, NEW c \in Clients, NEW d \in Datasets, Told(c, d)
               PROVE  Covers(c, d, seen[c][d])
    BY DEF ReadsNeverGoBack, Mixed
  <2>1. Cover(loaded[c][d].items, d, seen[c][d])
    BY DEF IInv, ClientInv, Held, Told, Worked
  <2>2. \A x \in loaded[c][d].items : x[2] \in Scope(c) => x \in ListOf(c, d)
    BY DEF IInv, ClientInv, Shown
  <2> QED BY <2>1, <2>2 DEF Cover, Covers
<1> QED BY <1>1, Inductive, PTL
=============================================================================
