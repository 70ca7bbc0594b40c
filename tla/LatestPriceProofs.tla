-------------------------- MODULE LatestPriceProofs --------------------------
(***************************************************************************)
(* The latest price is the most recent one, for any number of runs and     *)
(* symbols and any length of time.                                         *)
(***************************************************************************)
EXTENDS LatestPrice, TLAPS

Marks == Time \cup {NoTime, NoQuote}

\* Times are numbers, and the marks are none.
LEMMA Marked == /\ Time \subseteq Nat /\ 0 \in Time
                /\ NoTime \notin Time /\ NoQuote \notin Time /\ NoTime # NoQuote
BY TimeAssumption, MarkAssumption DEF Time

LEMMA EventTimeType ==
    ASSUME NEW m \in Marks, NEW t \in Time
    PROVE  EventTime(m, t) \in Time \cup {NoQuote}
BY DEF EventTime, Marks

\* The rows of a batch.
LEMMA RowOfBatch ==
    ASSUME TypeOK, NEW r \in Runs, NEW x \in RowsOf(r)
    PROVE  /\ x \in [run : Runs, dataset : Datasets, symbol : Symbols, event : Time]
           /\ x.run = r /\ x.dataset = dataset[r]
           /\ x.event = records[r][x.symbol] /\ records[r][x.symbol] # NoQuote
<1>1. PICK s \in Symbols : /\ records[r][s] # NoQuote
                           /\ x = [run |-> r, dataset |-> dataset[r], symbol |-> s,
                                   event |-> records[r][s]]
  BY DEF RowsOf
<1>2. records[r][s] \in Time /\ dataset[r] \in Datasets
  BY <1>1 DEF TypeOK
<1> QED BY <1>1, <1>2

-----------------------------------------------------------------------------
\* Every variable keeps its type.
THEOREM TypeCorrect == Spec => []TypeOK
<1>1. Init => TypeOK
  BY Marked DEF Init, TypeOK, Datasets
<1>2. TypeOK /\ [Next]_vars => TypeOK'
  <2> SUFFICES ASSUME TypeOK, [Next]_vars PROVE TypeOK'
    OBVIOUS
  <2>1. CASE Tick
    <3>1. clock' \in Time
      BY <2>1, TimeAssumption DEF Tick, TypeOK, Time
    <3> QED BY <2>1, <3>1 DEF Tick, TypeOK
  <2>2. ASSUME NEW r \in Runs, Fetch(r) PROVE TypeOK'
    <3>1. PICK m \in [Symbols -> 0..clock \cup {NoTime, NoQuote}] :
            market' = [market EXCEPT ![r] = m]
      BY <2>2 DEF Fetch
    <3>2. 0..clock \subseteq Time
      BY TimeAssumption DEF TypeOK, Time
    <3>3. market' \in [Runs -> [Symbols -> Time \cup {NoTime, NoQuote}]]
      BY <3>1, <3>2 DEF TypeOK
    <3>4. known' \in [Runs -> SUBSET Runs]
      <4>1. { x.run : x \in { y \in rows : y.dataset = Prices } } \subseteq Runs
        BY DEF TypeOK
      <4> QED BY <2>2, <4>1 DEF Fetch, TypeOK
    <3> QED BY <2>2, <3>3, <3>4 DEF Fetch, TypeOK, Goto
  <2>3. ASSUME NEW r \in Runs, Normalise(r) PROVE TypeOK'
    <3>1. \A s \in Symbols : EventTime(market[r][s], clock) \in Time \cup {NoQuote}
      BY EventTimeType DEF TypeOK, Marks
    <3>2. records' \in [Runs -> [Symbols -> Time \cup {NoQuote}]]
      BY <2>3, <3>1 DEF Normalise, TypeOK
    <3> QED BY <2>3, <3>2 DEF Normalise, TypeOK, Goto
  <2>4. ASSUME NEW r \in Runs, Commit(r) PROVE TypeOK'
    <3>1. rows' \subseteq [run : Runs, dataset : Datasets, symbol : Symbols, event : Time]
      <4>1. rows' = rows \cup RowsOf(r)
        BY <2>4 DEF Commit
      <4> QED BY <4>1, RowOfBatch DEF TypeOK
    <3> QED BY <2>4, <3>1 DEF Commit, TypeOK, Goto, Datasets
  <2>5. CASE UNCHANGED vars
    BY <2>5 DEF vars, TypeOK
  <2> QED BY <2>1, <2>2, <2>3, <2>4, <2>5 DEF Next, Step
<1> QED BY <1>1, <1>2, PTL DEF Spec

-----------------------------------------------------------------------------
(* The inductive invariant                                                 *)

\* e is the event time of a record of run r for symbol s.
Stamped(r, s, e) ==
    /\ market[r][s] # NoQuote
    /\ IF market[r][s] = NoTime THEN fetched[r] <= e /\ e <= clock
                                ELSE e = market[r][s]

\* What a run that has fetched knows lies in the past.
Captured(r) ==
    pc[r] # "fetch" =>
        /\ fetched[r] <= clock
        /\ \A s \in Symbols : market[r][s] \in Time => market[r][s] <= fetched[r]

KnownBefore(r) == \A q \in known[r] : pc[q] # "fetch" /\ fetched[q] <= fetched[r]

Recorded(r) ==
    pc[r] = "commit" =>
        \A s \in Symbols : records[r][s] # NoQuote => Stamped(r, s, records[r][s])

RowsStamped == \A x \in rows : pc[x.run] # "fetch" /\ Stamped(x.run, x.symbol, x.event)

\* A run has rows of a dataset once it is past it.
Progress(r) ==
    /\ dataset[r] = Prices => pc[r] # "done" /\ \A x \in rows : x.run # r
    /\ pc[r] # "done" => \A x \in rows : x.run = r => x.dataset = Prices
    /\ pc[r] = "fetch" => dataset[r] = Prices
    /\ r \in LakeSeeders /\ dataset[r] = History => pc[r] # "normalise"

\* A history record about to be committed is stamped after its price.
Follows(r) ==
    pc[r] = "commit" /\ dataset[r] = History =>
        \A x \in rows : x.run = r /\ records[r][x.symbol] # NoQuote =>
            /\ records[r][x.symbol] >= x.event
            /\ Timed(x) \/ r \in LakeSeeders => records[r][x.symbol] = x.event

\* The event times of a run's two batches.
TimesFollow ==
    \A x, h \in rows : (/\ x.run = h.run /\ x.symbol = h.symbol
                        /\ x.dataset = Prices /\ h.dataset = History) =>
        /\ h.event >= x.event
        /\ Timed(x) \/ x.run \in LakeSeeders => h.event = x.event

RunInv(r) == Captured(r) /\ KnownBefore(r) /\ Recorded(r) /\ Progress(r) /\ Follows(r)

IInv == (\A r \in Runs : RunInv(r)) /\ RowsStamped /\ TimesFollow

LEMMA InitIInv == Init => IInv
BY DEF Init, IInv, RunInv, Captured, KnownBefore, Recorded, Progress, Follows, RowsStamped,
       TimesFollow, Prices, History

LEMMA TickStep ==
    ASSUME TypeOK, IInv, Tick
    PROVE  IInv'
<1>1. /\ clock' = clock + 1 /\ clock \in Nat
      /\ UNCHANGED <<pc, dataset, market, fetched, known, records, rows>>
  BY Marked DEF Tick, TypeOK
<1>2. fetched \in [Runs -> Nat]
  BY Marked DEF TypeOK
<1>3. ASSUME NEW r \in Runs, NEW s, NEW e \in Nat, Stamped(r, s, e) PROVE Stamped(r, s, e)'
  BY <1>1, <1>2, <1>3 DEF Stamped
<1>4. ASSUME NEW r \in Runs PROVE RunInv(r)'
  <2>1. Captured(r)'
    BY <1>1, <1>2 DEF IInv, RunInv, Captured
  <2>2. Recorded(r)'
    <3> SUFFICES ASSUME pc[r] = "commit", NEW s \in Symbols, records[r][s] # NoQuote
                 PROVE  Stamped(r, s, records[r][s])'
      BY <1>1 DEF Recorded
    <3>1. records[r][s] \in Nat
      BY Marked DEF TypeOK
    <3>2. Stamped(r, s, records[r][s])
      BY DEF IInv, RunInv, Recorded
    <3> QED BY <1>1, <1>2, <3>1, <3>2 DEF Stamped
  <2> QED BY <1>1, <2>1, <2>2 DEF IInv, RunInv, KnownBefore, Progress, Follows, Timed
<1>5. RowsStamped'
  <2> SUFFICES ASSUME NEW x \in rows
               PROVE  pc[x.run] # "fetch" /\ Stamped(x.run, x.symbol, x.event)'
    BY <1>1 DEF RowsStamped
  <2>1. x.run \in Runs /\ x.event \in Nat
    BY Marked DEF TypeOK
  <2>2. pc[x.run] # "fetch" /\ Stamped(x.run, x.symbol, x.event)
    BY DEF IInv, RowsStamped
  <2> QED BY <1>1, <1>2, <2>1, <2>2 DEF Stamped
<1>6. TimesFollow'
  BY <1>1 DEF IInv, TimesFollow, Timed
<1> QED BY <1>4, <1>5, <1>6 DEF IInv

\* A run that fetches has no rows, so nothing said of rows changes.
LEMMA FetchStep ==
    ASSUME TypeOK, IInv, NEW r \in Runs, Fetch(r)
    PROVE  IInv'
<1>1. PICK m \in [Symbols -> 0..clock \cup {NoTime, NoQuote}] :
        market' = [market EXCEPT ![r] = m]
  BY DEF Fetch
<1>2. /\ pc[r] = "fetch" /\ pc' = [pc EXCEPT ![r] = "normalise"]
      /\ fetched' = [fetched EXCEPT ![r] = clock]
      /\ known' = [known EXCEPT ![r] = { x.run : x \in { y \in rows : y.dataset = Prices } }]
      /\ UNCHANGED <<clock, dataset, records, rows>>
  BY DEF Fetch, Goto
<1>3. /\ pc = [q \in Runs |-> pc[q]] /\ fetched \in [Runs -> Nat] /\ clock \in Nat
      /\ market = [q \in Runs |-> market[q]] /\ known \in [Runs -> SUBSET Runs]
      /\ \A x \in rows : x.run \in Runs /\ x.symbol \in Symbols
  <2>1. pc = [q \in Runs |-> pc[q]] /\ clock \in Nat /\ known \in [Runs -> SUBSET Runs]
    BY Marked DEF TypeOK
  <2>2. fetched \in [Runs -> Nat]
    BY Marked DEF TypeOK
  <2>3. market = [q \in Runs |-> market[q]]
    BY DEF TypeOK
  <2>4. \A x \in rows : x.run \in Runs /\ x.symbol \in Symbols
    BY DEF TypeOK
  <2> QED BY <2>1, <2>2, <2>3, <2>4
<1>4. \A x \in rows : x.run # r
  BY <1>2 DEF IInv, RowsStamped
<1>5. \A q \in Runs : q # r => /\ pc'[q] = pc[q] /\ fetched'[q] = fetched[q]
                              /\ market'[q] = market[q] /\ known'[q] = known[q]
  BY <1>1, <1>2, <1>3
<1>6. pc'[r] = "normalise" /\ fetched'[r] = clock /\ market'[r] = m
      /\ known'[r] = { x.run : x \in { y \in rows : y.dataset = Prices } }
  BY <1>1, <1>2, <1>3
<1>7. ASSUME NEW q \in Runs PROVE Captured(q)'
  <2>1. CASE q # r
    BY <1>2, <1>5, <2>1 DEF IInv, RunInv, Captured
  <2>2. CASE q = r
    <3>1. \A s \in Symbols : m[s] \in Time => m[s] <= clock
      BY <1>3, Marked, TimeAssumption DEF Time
    <3> QED BY <1>2, <1>3, <1>6, <2>2, <3>1 DEF Captured
  <2> QED BY <2>1, <2>2
<1>8. ASSUME NEW q \in Runs PROVE KnownBefore(q)'
  <2> SUFFICES ASSUME NEW k \in known'[q] PROVE pc'[k] # "fetch" /\ fetched'[k] <= fetched'[q]
    BY DEF KnownBefore
  <2>1. CASE q # r
    <3>1. k \in Runs /\ pc[k] # "fetch" /\ fetched[k] <= fetched[q]
      BY <1>3, <1>5, <2>1 DEF IInv, RunInv, KnownBefore
    <3>2. k # r
      BY <1>2, <3>1
    <3> QED BY <1>5, <2>1, <3>1, <3>2
  <2>2. CASE q = r
    <3>1. PICK x \in rows : k = x.run
      BY <1>6, <2>2
    <3>2. k \in Runs /\ k # r /\ pc[k] # "fetch"
      BY <1>3, <1>4, <3>1 DEF IInv, RowsStamped
    <3>3. fetched[k] <= clock
      BY <3>2 DEF IInv, RunInv, Captured
    <3> QED BY <1>5, <1>6, <2>2, <3>2, <3>3
  <2> QED BY <2>1, <2>2
<1>9. ASSUME NEW q \in Runs PROVE Recorded(q)' /\ Progress(q)' /\ Follows(q)'
  <2>1. CASE q # r
    <3>1. Recorded(q)'
      BY <1>2, <1>5, <2>1 DEF IInv, RunInv, Recorded, Stamped
    <3>2. Progress(q)'
      BY <1>2, <1>5, <2>1 DEF IInv, RunInv, Progress
    <3>3. Follows(q)'
      BY <1>2, <1>3, <1>5, <2>1 DEF IInv, RunInv, Follows, Timed
    <3> QED BY <3>1, <3>2, <3>3
  <2>2. CASE q = r
    <3>1. dataset[r] = Prices
      BY <1>2 DEF IInv, RunInv, Progress
    <3> QED BY <1>2, <1>4, <1>6, <2>2, <3>1 DEF Recorded, Progress, Follows, Prices, History
  <2> QED BY <2>1, <2>2
<1>10. RowsStamped' /\ TimesFollow'
  <2>1. RowsStamped'
    BY <1>2, <1>3, <1>4, <1>5 DEF IInv, RowsStamped, Stamped
  <2>2. \A x \in rows : Timed(x)' <=> Timed(x)
    BY <1>3, <1>4, <1>5 DEF Timed
  <2>3. TimesFollow'
    BY <1>2, <2>2 DEF IInv, TimesFollow
  <2> QED BY <2>1, <2>3
<1> QED BY <1>7, <1>8, <1>9, <1>10 DEF IInv, RunInv

\* A run's records are stamped between its fetch and now; its history's after its
\* prices', and at the same market time.
LEMMA NormaliseStep ==
    ASSUME TypeOK, IInv, NEW r \in Runs, Normalise(r)
    PROVE  IInv'
<1> DEFINE new == [s \in Symbols |-> EventTime(market[r][s], clock)]
<1>1. /\ pc[r] = "normalise" /\ pc' = [pc EXCEPT ![r] = "commit"]
      /\ records' = [records EXCEPT ![r] = new]
      /\ UNCHANGED <<clock, dataset, market, fetched, known, rows>>
  BY DEF Normalise, Goto
<1>2. /\ pc = [q \in Runs |-> pc[q]] /\ clock \in Nat
      /\ records = [q \in Runs |-> records[q]]
  <2>1. pc = [q \in Runs |-> pc[q]] /\ clock \in Nat
    BY Marked DEF TypeOK
  <2>2. records = [q \in Runs |-> records[q]]
    BY DEF TypeOK
  <2> QED BY <2>1, <2>2
<1>3. fetched \in [Runs -> Nat]
  BY Marked DEF TypeOK
<1>4. \A q \in Runs : q # r => pc'[q] = pc[q] /\ records'[q] = records[q]
  BY <1>1, <1>2
<1>5. pc'[r] = "commit" /\ records'[r] = new
  BY <1>1, <1>2
<1>6. fetched[r] <= clock
  BY <1>1 DEF IInv, RunInv, Captured
<1>7. ASSUME NEW s \in Symbols, new[s] # NoQuote PROVE Stamped(r, s, new[s])
  <2>1. market[r][s] \in Marks
    BY DEF TypeOK, Marks
  <2>2. new[s] = IF market[r][s] = NoTime THEN clock ELSE market[r][s]
    BY DEF EventTime
  <2>3. market[r][s] # NoQuote
    BY <1>7, <2>2, Marked
  <2> HIDE DEF new
  <2> QED BY <1>1, <1>2, <1>3, <1>6, <2>1, <2>2, <2>3 DEF Stamped
<1>8. ASSUME NEW q \in Runs PROVE Captured(q)' /\ KnownBefore(q)'
  <2>1. \A k \in Runs : pc[k] # "fetch" <=> pc'[k] # "fetch"
    BY <1>1, <1>4, <1>5
  <2>2. Captured(q)'
    BY <1>1, <2>1 DEF IInv, RunInv, Captured
  <2>3. \A k \in known[q] : k \in Runs
    BY DEF TypeOK
  <2>4. KnownBefore(q)'
    BY <1>1, <2>1, <2>3 DEF IInv, RunInv, KnownBefore
  <2> QED BY <2>2, <2>4
<1>9. ASSUME NEW q \in Runs PROVE Recorded(q)'
  <2>1. CASE q # r
    BY <1>1, <1>4, <2>1 DEF IInv, RunInv, Recorded, Stamped
  <2>2. CASE q = r
    <3> HIDE DEF new
    <3> QED BY <1>1, <1>5, <1>7, <2>2 DEF Recorded, Stamped
  <2> QED BY <2>1, <2>2
<1>10. ASSUME NEW q \in Runs PROVE Progress(q)'
  <2>1. CASE q # r
    BY <1>1, <1>4, <2>1 DEF IInv, RunInv, Progress
  <2>2. CASE q = r
    BY <1>1, <1>5, <2>2 DEF IInv, RunInv, Progress
  <2> QED BY <2>1, <2>2
<1>11. ASSUME NEW q \in Runs PROVE Follows(q)'
  <2>1. CASE q # r
    BY <1>1, <1>4, <2>1 DEF IInv, RunInv, Follows, Timed
  <2>2. CASE q = r
    <3> SUFFICES ASSUME dataset[r] = History, NEW x \in rows, x.run = r,
                        new[x.symbol] # NoQuote
                 PROVE  /\ new[x.symbol] >= x.event
                        /\ Timed(x) \/ r \in LakeSeeders => new[x.symbol] = x.event
      BY <1>1, <1>5, <2>2 DEF Follows, Timed
    <3>1. r \notin LakeSeeders
      BY <1>1 DEF IInv, RunInv, Progress
    <3>2. x.symbol \in Symbols /\ x.event \in Nat
      <4>1. x.symbol \in Symbols /\ x.event \in Time
        BY DEF TypeOK
      <4> QED BY <4>1, Marked
    <3>3. Stamped(r, x.symbol, x.event)
      BY DEF IInv, RowsStamped
    <3>4. new[x.symbol] = IF market[r][x.symbol] = NoTime THEN clock ELSE market[r][x.symbol]
      BY <3>2 DEF EventTime
    <3> HIDE DEF new
    <3> QED BY <1>2, <3>1, <3>2, <3>3, <3>4 DEF Stamped, Timed
  <2> QED BY <2>1, <2>2
<1>12. RowsStamped' /\ TimesFollow'
  <2>1. \A x \in rows : x.run \in Runs
    BY DEF TypeOK
  <2>2. RowsStamped'
    BY <1>1, <1>4, <1>5, <2>1 DEF IInv, RowsStamped, Stamped
  <2>3. TimesFollow'
    BY <1>1 DEF IInv, TimesFollow, Timed
  <2> QED BY <2>2, <2>3
<1> QED BY <1>8, <1>9, <1>10, <1>11, <1>12 DEF IInv, RunInv

\* A batch adds the records of its run, and no other run's rows.
LEMMA CommitStep ==
    ASSUME TypeOK, IInv, NEW r \in Runs, Commit(r)
    PROVE  IInv'
<1>1. /\ pc[r] = "commit" /\ rows' = rows \cup RowsOf(r)
      /\ UNCHANGED <<clock, market, fetched, known, records>>
  BY DEF Commit
<1>2. /\ pc = [q \in Runs |-> pc[q]] /\ dataset \in [Runs -> Datasets]
      /\ \A x \in rows : x.run \in Runs
  <2>1. pc = [q \in Runs |-> pc[q]] /\ dataset \in [Runs -> Datasets]
    <3>1. pc = [q \in Runs |-> pc[q]]
      BY DEF TypeOK
    <3> QED BY <3>1 DEF TypeOK
  <2>2. \A x \in rows : x.run \in Runs
    BY DEF TypeOK
  <2> QED BY <2>1, <2>2
<1>3. \A q \in Runs : q # r => pc'[q] = pc[q] /\ dataset'[q] = dataset[q]
  BY <1>1, <1>2 DEF Commit, Goto
<1>4. pc'[r] # "fetch"
  BY <1>2 DEF Commit, Goto
<1>5. \A x \in RowsOf(r) : /\ x.run = r /\ x.dataset = dataset[r] /\ x.symbol \in Symbols
                          /\ x.event = records[r][x.symbol] /\ records[r][x.symbol] # NoQuote
  BY RowOfBatch
<1>6. ASSUME NEW q \in Runs PROVE Captured(q)' /\ KnownBefore(q)'
  <2>1. \A k \in Runs : pc'[k] # "fetch" <=> pc[k] # "fetch"
    BY <1>1, <1>3, <1>4
  <2>2. Captured(q)'
    BY <1>1, <2>1 DEF IInv, RunInv, Captured
  <2>3. \A k \in known[q] : k \in Runs
    BY DEF TypeOK
  <2>4. KnownBefore(q)'
    BY <1>1, <2>1, <2>3 DEF IInv, RunInv, KnownBefore
  <2> QED BY <2>2, <2>4
<1>7. ASSUME NEW q \in Runs PROVE Recorded(q)'
  BY <1>1, <1>3 DEF IInv, RunInv, Recorded, Stamped
<1>8. RowsStamped'
  <2> SUFFICES ASSUME NEW x \in rows' PROVE pc'[x.run] # "fetch" /\ Stamped(x.run, x.symbol, x.event)
    BY <1>1 DEF RowsStamped, Stamped
  <2>1. CASE x \in rows
    BY <1>2, <1>3, <1>4, <2>1 DEF IInv, RowsStamped
  <2>2. CASE x \in RowsOf(r)
    BY <1>1, <1>4, <1>5, <2>2 DEF IInv, RunInv, Recorded
  <2> QED BY <1>1, <2>1, <2>2
<1>9. CASE dataset[r] = Prices
  <2>1. /\ dataset'[r] = History
        /\ pc'[r] = IF r \in LakeSeeders THEN "commit" ELSE "normalise"
    BY <1>2, <1>9 DEF Commit, Goto
  <2>2. \A x \in rows : x.run # r
    BY <1>9 DEF IInv, RunInv, Progress
  <2>3. ASSUME NEW q \in Runs PROVE Progress(q)'
    <3>1. CASE q # r
      BY <1>1, <1>3, <1>5, <3>1 DEF IInv, RunInv, Progress
    <3>2. CASE q = r
      BY <1>1, <1>5, <1>9, <2>1, <2>2, <3>2 DEF Progress, Prices, History
    <3> QED BY <3>1, <3>2
  <2>4. ASSUME NEW q \in Runs PROVE Follows(q)'
    <3>1. CASE q # r
      BY <1>1, <1>3, <1>5, <3>1 DEF IInv, RunInv, Follows, Timed
    <3>2. CASE q = r
      <4> SUFFICES ASSUME NEW x \in RowsOf(r)
                   PROVE  records[r][x.symbol] >= x.event /\ records[r][x.symbol] = x.event
        BY <1>1, <2>2, <3>2 DEF Follows, Timed
      <4>1. x.event \in Nat
        <5>1. x.event \in Time
          BY RowOfBatch
        <5> QED BY <5>1, Marked
      <4> QED BY <1>5, <4>1
    <3> QED BY <3>1, <3>2
  <2>5. TimesFollow'
    <3>1. \A x \in RowsOf(r) : x.dataset # History
      BY <1>5, <1>9 DEF Prices, History
    <3> QED BY <1>1, <1>5, <2>2, <3>1 DEF IInv, TimesFollow, Timed
  <2> QED BY <1>6, <1>7, <1>8, <2>3, <2>4, <2>5 DEF IInv, RunInv
<1>10. CASE dataset[r] = History
  <2>1. dataset' = dataset /\ pc'[r] = "done"
    BY <1>2, <1>10 DEF Commit, Goto, Prices, History
  <2>2. ASSUME NEW q \in Runs PROVE Progress(q)'
    <3>1. CASE q # r
      BY <1>1, <1>3, <1>5, <3>1 DEF IInv, RunInv, Progress
    <3>2. CASE q = r
      BY <1>10, <2>1, <3>2 DEF Progress, Prices, History
    <3> QED BY <3>1, <3>2
  <2>3. ASSUME NEW q \in Runs PROVE Follows(q)'
    <3>1. CASE q # r
      BY <1>1, <1>3, <1>5, <3>1 DEF IInv, RunInv, Follows, Timed
    <3>2. CASE q = r
      BY <2>1, <3>2 DEF Follows
    <3> QED BY <3>1, <3>2
  <2>4. TimesFollow'
    <3> SUFFICES ASSUME NEW x \in rows', NEW h \in rows', x.run = h.run, x.symbol = h.symbol,
                        x.dataset = Prices, h.dataset = History
                 PROVE  /\ h.event >= x.event
                        /\ Timed(x) \/ x.run \in LakeSeeders => h.event = x.event
      BY <1>1 DEF TimesFollow, Timed
    <3>1. x \in rows
      BY <1>1, <1>5, <1>10 DEF Prices, History
    <3>2. CASE h \in rows
      BY <3>1, <3>2 DEF IInv, TimesFollow
    <3>3. CASE h \in RowsOf(r)
      BY <1>1, <1>5, <1>10, <3>1, <3>3 DEF IInv, RunInv, Follows
    <3> QED BY <1>1, <3>2, <3>3
  <2> QED BY <1>6, <1>7, <1>8, <2>2, <2>3, <2>4 DEF IInv, RunInv
<1> QED BY <1>2, <1>9, <1>10 DEF Datasets

\* The inductive invariant: event times are times at which, or before which, their
\* prices were fetched.
THEOREM Inductive == Spec => []IInv
<1>1. TypeOK /\ IInv /\ [Next]_vars => IInv'
  <2>1. ASSUME IInv, UNCHANGED vars PROVE IInv'
    BY <2>1 DEF vars, IInv, RunInv, Captured, KnownBefore, Recorded, Progress, Follows,
                RowsStamped, Stamped, TimesFollow, Timed
  <2> QED BY <2>1, TickStep, FetchStep, NormaliseStep, CommitStep DEF Next, Step
<1> QED BY <1>1, InitIInv, TypeCorrect, PTL DEF Spec

-----------------------------------------------------------------------------
\* No older price is served as the latest, but where an overlapping run's quote had
\* no market time.
THEOREM LatestIsMostRecentAlways == Spec => []LatestIsMostRecent
<1>1. TypeOK /\ IInv => LatestIsMostRecent
  <2> SUFFICES ASSUME TypeOK, IInv, NEW s \in Symbols, NEW x \in PriceRows(s),
                      NEW y \in Latest(s), Timed(y) \/ x.run \in known[y.run]
               PROVE  AsOf(y) >= AsOf(x)
    BY DEF LatestIsMostRecent
  <2>1. /\ x \in rows /\ y \in rows /\ x.symbol = s /\ y.symbol = s
        /\ x.event <= y.event
    BY DEF PriceRows, Latest
  <2>2. /\ x.run \in Runs /\ x.event \in Nat
        /\ y.run \in Runs /\ y.event \in Nat
    <3>1. x.run \in Runs /\ x.event \in Time
      BY <2>1 DEF TypeOK
    <3>2. y.run \in Runs /\ y.event \in Time
      BY <2>1 DEF TypeOK
    <3> QED BY <3>1, <3>2, Marked
  <2>3. /\ fetched[x.run] \in Nat /\ fetched[y.run] \in Nat
        /\ market[x.run][s] \in Marks
    <3>1. fetched[x.run] \in Time /\ fetched[y.run] \in Time
      BY <2>2 DEF TypeOK
    <3>2. market[x.run][s] \in Marks
      BY <2>2 DEF TypeOK, Marks
    <3> QED BY <3>1, <3>2, Marked
  <2>4. /\ Stamped(x.run, s, x.event) /\ Stamped(y.run, s, y.event)
        /\ pc[x.run] # "fetch"
    BY <2>1 DEF IInv, RowsStamped
  <2>5. AsOf(x) <= x.event /\ AsOf(x) \in Nat
    BY <2>1, <2>2, <2>3, <2>4 DEF AsOf, Timed, Stamped
  <2>6. CASE Timed(y)
    BY <2>1, <2>2, <2>4, <2>5, <2>6 DEF AsOf, Timed, Stamped
  <2>7. CASE ~ Timed(y)
    <3>1. fetched[x.run] <= fetched[y.run]
      BY <2>2, <2>7 DEF IInv, RunInv, KnownBefore
    <3>2. AsOf(x) <= fetched[x.run]
      <4>1. CASE Timed(x)
        <5>1. market[x.run][s] \in Time
          BY <2>1, <2>3, <2>4, <4>1 DEF Marks, Timed, Stamped
        <5>2. market[x.run][s] <= fetched[x.run]
          BY <2>2, <2>4, <5>1 DEF IInv, RunInv, Captured
        <5> QED BY <2>1, <4>1, <5>2 DEF AsOf
      <4>2. CASE ~ Timed(x)
        BY <2>3, <4>2 DEF AsOf
      <4> QED BY <4>1, <4>2
    <3> QED BY <2>3, <2>5, <2>7, <3>1, <3>2 DEF AsOf
  <2> QED BY <2>6, <2>7
<1> QED BY <1>1, TypeCorrect, Inductive, PTL

(* The history has a row for each price *)

\* The records of a run that is about to commit are of every quote it fetched.
Complete(r) ==
    pc[r] = "commit" => \A s \in Symbols : market[r][s] # NoQuote => records[r][s] # NoQuote

PricesInHistory ==
    \A x \in rows : x.dataset = Prices /\ pc[x.run] = "done" => HistoryOf(x) # {}

HInv == (\A r \in Runs : Complete(r)) /\ PricesInHistory

\* A step that leaves the rows alone leaves no run at its end.
LEMMA BeforeTheEnd ==
    ASSUME TypeOK, HInv, rows' = rows,
           \A q \in Runs : pc'[q] = "done" => pc[q] = "done"
    PROVE  PricesInHistory'
<1>1. \A x \in rows : x.run \in Runs
  BY DEF TypeOK
<1>2. \A x : HistoryOf(x)' = HistoryOf(x)
  BY DEF HistoryOf
<1> QED BY <1>1, <1>2 DEF HInv, PricesInHistory

LEMMA NormaliseIsComplete ==
    ASSUME TypeOK, HInv, NEW r \in Runs, Normalise(r)
    PROVE  HInv'
<1>1. /\ rows' = rows /\ market' = market
      /\ pc' = [pc EXCEPT ![r] = "commit"]
      /\ records' = [records EXCEPT ![r] = [s \in Symbols |-> EventTime(market[r][s], clock)]]
  BY DEF Normalise, Goto
<1>2. \A q \in Runs : pc'[q] = "done" => pc[q] = "done"
  BY <1>1 DEF TypeOK
<1>3. ASSUME NEW q \in Runs PROVE Complete(q)'
  <2>1. CASE q # r
    <3>1. pc'[q] = pc[q] /\ records'[q] = records[q]
      BY <1>1, <2>1 DEF TypeOK
    <3> QED BY <1>1, <3>1 DEF HInv, Complete
  <2>2. CASE q = r
    <3>1. \A s \in Symbols : records'[r][s] = EventTime(market[r][s], clock)
      BY <1>1 DEF TypeOK
    <3>2. clock # NoQuote
      BY Marked DEF TypeOK
    <3> QED BY <1>1, <2>2, <3>1, <3>2 DEF Complete, EventTime
  <2> QED BY <2>1, <2>2
<1> QED BY <1>1, <1>2, <1>3, BeforeTheEnd DEF HInv

\* The history batch has a row for every price of its run, since both batches are
\* made from the quotes that were fetched.
LEMMA CommitIsComplete ==
    ASSUME TypeOK, IInv, HInv, NEW r \in Runs, Commit(r)
    PROVE  HInv'
<1>1. /\ pc[r] = "commit" /\ rows' = rows \cup RowsOf(r)
      /\ UNCHANGED <<clock, market, fetched, known, records>>
  BY DEF Commit
<1>2. \A q \in Runs : q # r => pc'[q] = pc[q]
  BY DEF Commit, Goto, TypeOK
<1>3. ASSUME NEW q \in Runs PROVE Complete(q)'
  BY <1>1, <1>2 DEF HInv, Complete
<1>4. \A x \in rows : x.run \in Runs /\ x.symbol \in Symbols
  BY DEF TypeOK
<1>5. \A x \in RowsOf(r) : x.run = r /\ x.dataset = dataset[r]
  BY RowOfBatch
<1>6. ASSUME NEW x \in rows', x.dataset = Prices, pc'[x.run] = "done"
      PROVE  \E h \in rows' : h.dataset = History /\ h.run = x.run /\ h.symbol = x.symbol
  <2>1. CASE x.run # r
    <3>1. x \in rows /\ pc[x.run] = "done"
      BY <1>1, <1>2, <1>4, <1>5, <1>6, <2>1
    <3>2. PICK h \in rows : h.dataset = History /\ h.run = x.run /\ h.symbol = x.symbol
      BY <1>6, <3>1 DEF HInv, PricesInHistory, HistoryOf
    <3> QED BY <1>1, <3>2
  <2>2. CASE x.run = r
    <3>1. dataset[r] = History
      BY <1>6, <2>2 DEF Commit, Goto, TypeOK, Datasets
    <3>2. x \in rows
      BY <1>1, <1>5, <1>6, <3>1 DEF Prices, History
    <3>3. market[r][x.symbol] # NoQuote
      BY <2>2, <3>2 DEF IInv, RowsStamped, Stamped
    <3>4. records[r][x.symbol] # NoQuote
      BY <1>1, <1>4, <3>2, <3>3 DEF HInv, Complete
    <3> DEFINE h == [run |-> r, dataset |-> dataset[r], symbol |-> x.symbol,
                     event |-> records[r][x.symbol]]
    <3>5. h \in RowsOf(r)
      BY <1>4, <3>2, <3>4 DEF RowsOf
    <3>6. h.dataset = History /\ h.run = x.run /\ h.symbol = x.symbol
      BY <2>2, <3>1
    <3> HIDE DEF h
    <3> QED BY <1>1, <3>5, <3>6
  <2> QED BY <2>1, <2>2
<1> QED BY <1>3, <1>6 DEF HInv, PricesInHistory, HistoryOf

LEMMA HistoryComplete == Spec => []HInv
<1>1. Init => HInv
  BY DEF Init, HInv, Complete, PricesInHistory
<1>2. TypeOK /\ IInv /\ HInv /\ [Next]_vars => HInv'
  <2> SUFFICES ASSUME TypeOK, IInv, HInv, [Next]_vars PROVE HInv'
    OBVIOUS
  <2>1. CASE Tick
    BY <2>1, BeforeTheEnd DEF Tick, HInv, Complete
  <2>2. ASSUME NEW r \in Runs, Fetch(r) PROVE HInv'
    <3>1. /\ rows' = rows /\ records' = records /\ pc' = [pc EXCEPT ![r] = "normalise"]
          /\ \A q \in Runs : q # r => market'[q] = market[q]
      BY <2>2 DEF Fetch, Goto, TypeOK
    <3>2. \A q \in Runs : /\ pc'[q] = "done" => pc[q] = "done"
                          /\ pc'[q] = "commit" => q # r /\ pc[q] = "commit"
      BY <3>1 DEF TypeOK
    <3>3. ASSUME NEW q \in Runs PROVE Complete(q)'
      BY <3>1, <3>2 DEF HInv, Complete
    <3> QED BY <3>1, <3>2, <3>3, BeforeTheEnd DEF HInv
  <2>3. CASE UNCHANGED vars
    BY <2>3 DEF vars, HInv, Complete, PricesInHistory, HistoryOf
  <2> QED BY <2>1, <2>2, <2>3, NormaliseIsComplete, CommitIsComplete DEF Next, Step
<1> QED BY <1>1, <1>2, TypeCorrect, Inductive, PTL DEF Spec

\* Each price has a history row once its run is done, at its event time, or a later
\* one where it has no market time of its own.
THEOREM HistoryFollowsPricesAlways == Spec => []HistoryFollowsPrices
<1>1. IInv /\ HInv => HistoryFollowsPrices
  BY DEF IInv, TimesFollow, HInv, PricesInHistory, HistoryFollowsPrices, HistoryOf
<1> QED BY <1>1, Inductive, HistoryComplete, PTL
=============================================================================
