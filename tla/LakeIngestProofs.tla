-------------------------- MODULE LakeIngestProofs --------------------------
(***************************************************************************)
(* What LakeIngest guarantees for any number of runs and symbols, whatever *)
(* overlaps, fails or is killed.                                           *)
(***************************************************************************)
EXTENDS LakeIngest, WellFoundedInduction, TLAPS

-----------------------------------------------------------------------------
(* Lemmas on the data                                                      *)

\* Appending to a file adds one batch to it.
LEMMA RangeOfAppend ==
    ASSUME NEW S, NEW h \in Seq(S), NEW b \in S
    PROVE  Range(Append(h, b)) = Range(h) \cup {b}
<1>1. DOMAIN Append(h, b) = 1..(Len(h) + 1) /\ DOMAIN h = 1..Len(h) /\ Len(h) \in Nat
  OBVIOUS
<1>2. /\ Append(h, b)[Len(h) + 1] = b
      /\ \A i \in 1..Len(h) : Append(h, b)[i] = h[i]
  OBVIOUS
<1>3. ASSUME NEW x \in Range(Append(h, b)) PROVE x \in Range(h) \cup {b}
  <2>1. PICK i \in 1..(Len(h) + 1) : x = Append(h, b)[i]
    BY <1>1, <1>3 DEF Range
  <2>2. CASE i = Len(h) + 1
    BY <1>2, <2>1, <2>2
  <2>3. CASE i # Len(h) + 1
    <3>1. i \in 1..Len(h)
      BY <1>1, <2>1, <2>3
    <3> QED BY <1>1, <1>2, <2>1, <3>1 DEF Range
  <2> QED BY <2>2, <2>3
<1>4. b \in Range(Append(h, b))
  <2>1. Len(h) + 1 \in DOMAIN Append(h, b)
    BY <1>1
  <2> QED BY <1>2, <2>1 DEF Range
<1>5. ASSUME NEW x \in Range(h) PROVE x \in Range(Append(h, b))
  <2>1. PICK i \in 1..Len(h) : x = h[i]
    BY <1>1, <1>5 DEF Range
  <2>2. i \in DOMAIN Append(h, b) /\ Append(h, b)[i] = x
    BY <1>1, <1>2, <2>1
  <2> QED BY <2>2 DEF Range
<1> QED BY <1>3, <1>4, <1>5

\* A nonempty set of positions has a greatest one.
LEMMA MaxOfPositions ==
    ASSUME NEW n \in Nat, NEW S \in SUBSET (1..n), S # {}
    PROVE  Max(S) \in S /\ \A i \in S : Max(S) >= i
<1> DEFINE T == { n - i : i \in S }
<1>1. T \subseteq Nat /\ T # {}
  <2>1. \A i \in S : n - i \in Nat
    OBVIOUS
  <2>2. PICK i \in S : TRUE
    OBVIOUS
  <2>3. n - i \in T
    BY <2>2
  <2> QED BY <2>1, <2>3
<1> DEFINE Less == OpToRel(<, Nat)
<1>2. PICK x \in T : \A y \in T : ~ (<<y, x>> \in Less)
  <2> HIDE DEF T, Less
  <2>1. IsWellFoundedOn(Less, Nat)
    BY NatLessThanWellFounded DEF Less
  <2> QED BY <1>1, <2>1, WFMin
<1>3. \A y \in T : ~ (y < x)
  <2> SUFFICES ASSUME NEW y \in T, y < x PROVE FALSE
    OBVIOUS
  <2>1. y \in Nat /\ x \in Nat
    BY <1>1
  <2>2. <<y, x>> \in Less
    BY <2>1 DEF OpToRel
  <2> QED BY <1>2, <2>2
<1>4. PICK m \in S : x = n - m
  OBVIOUS
<1>5. \A i \in S : m >= i
  <2> TAKE i \in S
  <2>1. ~ (n - i < n - m)
    BY <1>3, <1>4
  <2> QED BY <2>1
<1> QED BY <1>4, <1>5 DEF Max

\* load_previous_prices finds a batch that has rows in the file, or nothing.
LEMMA LastRowInFile ==
    ASSUME NEW S, NEW h \in Seq(S), NEW s
    PROVE  LastRow(h, s) \in Range(h) \cup {Nothing}
<1>1. /\ RowsOf(h, s) \in SUBSET (1..Len(h))
      /\ DOMAIN h = 1..Len(h) /\ Len(h) \in Nat
  BY DEF RowsOf
<1>2. CASE RowsOf(h, s) # {}
  <2>1. Max(RowsOf(h, s)) \in RowsOf(h, s)
    BY <1>1, <1>2, MaxOfPositions
  <2> QED BY <1>1, <1>2, <2>1 DEF LastRow, Range
<1> QED BY <1>2 DEF LastRow

-----------------------------------------------------------------------------
(* Type correctness                                                        *)

\* Every variable keeps its type.
THEOREM TypeCorrect == Spec => []TypeOK
<1>1. Init => TypeOK
  BY DEF Init, TypeOK, Running, Datasets, Batches
<1>2. TypeOK /\ [Next]_vars => TypeOK'
  <2> SUFFICES ASSUME TypeOK, [Next]_vars PROVE TypeOK'
    OBVIOUS
  <2> USE DEF TypeOK, Goto, End, Running, InLake, InCsv, InSeed, input, lake, csv
  <2>1. ASSUME NEW r \in Runs, Start(r) \/ Fetch(r) PROVE TypeOK'
    <3>1. CASE Start(r)
      BY <3>1 DEF Start
    <3>2. CASE Fetch(r)
      <4>1. quotes' \in [Runs -> SUBSET Symbols]
        BY <3>2 DEF Fetch
      <4>2. /\ pc' \in [Runs -> {"idle", "ended", "killed"} \cup Running]
            /\ exit' \in [Runs -> {0, 1, 2, Nothing}]
        BY <3>2 DEF Fetch
      <4> QED BY <3>2, <4>1, <4>2 DEF Fetch
    <3> QED BY <2>1, <3>1, <3>2
  <2>2. ASSUME NEW r \in Runs, Land(r) \/ Stage(r) \/ Commit(r) PROVE TypeOK'
    <3>1. <<r, dataset[r]>> \in Runs \X Datasets
      OBVIOUS
    <3>2. pc' \in [Runs -> {"idle", "ended", "killed"} \cup Running]
      BY <2>2 DEF Land, Stage, Commit
    <3> QED BY <2>2, <3>1, <3>2 DEF Land, Stage, Commit
  <2>3. ASSUME NEW r \in Runs, WriteLineage(r) PROVE TypeOK'
    BY <2>3 DEF WriteLineage, ToNextDataset, Datasets
  <2>4. ASSUME NEW r \in Runs, LakeFails(r) \/ Report(r) \/ Fails(r) \/ Kill(r) PROVE TypeOK'
    BY <2>4 DEF LakeFails, Report, Fails, Kill
  <2>5. ASSUME NEW r \in Runs, ReadPrevious(r) PROVE TypeOK'
    <3>1. Range(historyCsv) \subseteq Batches
      BY DEF Range
    <3>2. \A s \in Symbols : LastRow(historyCsv, s) \in Batches \cup {Nothing}
      BY <3>1, LastRowInFile
    <3>3. prev' \in [Runs -> [Symbols -> Batches \cup {Nothing}]]
      BY <2>5, <3>2 DEF ReadPrevious
    <3> QED BY <2>5, <3>3 DEF ReadPrevious
  <2>6. ASSUME NEW r \in Runs, ProjectPrices(r) \/ AppendRead(r) PROVE TypeOK'
    BY <2>6 DEF ProjectPrices, AppendRead, Batches
  <2>7. ASSUME NEW r \in Runs, AppendReplace(r) PROVE TypeOK'
    <3>1. historyCsv' \in Seq(Batches)
      BY <2>7 DEF AppendReplace, Batches
    <3> QED BY <2>7, <3>1 DEF AppendReplace
  <2>8. ASSUME NEW r \in Runs, SeedFixtures(r) PROVE TypeOK'
    <3>1. CASE SeedPrices(r) \/ FillPrices(r)
      BY <3>1 DEF SeedPrices, FillPrices, Batches
    <3>2. CASE SeedHistory(r) \/ FillHistory(r)
      <4>0. <<>> \in Seq(Batches) /\ <<Fixture>> \in Seq(Batches)
        BY DEF Batches
      <4>1. historyCsv' \in Seq(Batches)
        BY <3>2, <4>0 DEF SeedHistory, FillHistory
      <4> QED BY <3>2, <4>1 DEF SeedHistory, FillHistory
    <3> QED BY <2>8, <3>1, <3>2 DEF SeedFixtures
  <2>9. CASE UNCHANGED vars
    BY <2>9 DEF vars
  <2> QED BY <2>1, <2>2, <2>3, <2>4, <2>5, <2>6, <2>7, <2>8, <2>9 DEF Next, Step, Live
<1> QED BY <1>1, <1>2, PTL DEF Spec

-----------------------------------------------------------------------------
(* The inductive invariant                                                 *)

\* Where a run is tells which of its datasets are committed.
Ladder(r) ==
    /\ pc[r] \in {"idle", "fetch"} => dataset[r] = Prices /\ Committed(r) = {}
    /\ dataset[r] = Prices => History \notin Committed(r)
    /\ dataset[r] = History => Prices \in Committed(r)
    /\ pc[r] \in {"land", "stage", "commit"} => dataset[r] \in Due(r) \ Committed(r)
    /\ pc[r] = "lineage" => dataset[r] \in Committed(r)
    /\ pc[r] \in InCsv \cup {"report"} => Due(r) \subseteq Committed(r)

\* A batch half written is the one its run is writing, or died writing.
Fragments(r) ==
    \A d \in Datasets : <<r, d>> \in landing \cup bronze =>
        \/ <<r, d>> \in manifests
        \/ /\ d = dataset[r] /\ exit[r] # 0
           /\ pc[r] \in {"stage", "commit", "ended", "killed"}

\* Fixture runs never enter the live pipeline, nor live runs the seeding.
Modes(r) ==
    IF r \in Seeders THEN pc[r] \in {"idle", "ended", "killed"} \cup InSeed
                     ELSE pc[r] \notin InSeed

\* What an exit status says of the lake.
Exits(r) ==
    /\ pc[r] # "ended" => exit[r] = Nothing
    /\ exit[r] = 0 /\ r \notin Seeders => Due(r) \subseteq Committed(r)

RunInv(r) == Ladder(r) /\ Fragments(r) /\ Modes(r) /\ Exits(r)

\* LakeFirst, for the text an append holds in memory as well.
Backed(S) == \A r \in Runs \cap S : Due(r) \subseteq Committed(r)
Shown == Backed(InCsvFiles) /\ \A q \in Runs : Backed(Range(existing[q]))

\* A run that has not projected its prices yet is not in their file, and one that
\* has not appended yet is in no text; one that the lake failed never will be.
BeforeCsv(r) == pc[r] \in {"idle", "fetch"} \cup InLake \/ exit[r] = 2
BeforeAppend(r) == BeforeCsv(r) \/ pc[r] \in InCsv
Unseen(r) ==
    /\ BeforeCsv(r) => pricesCsv # r
    /\ BeforeAppend(r) => /\ r \notin Range(historyCsv)
                          /\ \A q \in Runs : r \notin Range(existing[q])

IInv == /\ \A r \in Runs : RunInv(r) /\ Unseen(r)
        /\ Shown
        /\ LineageNamesCommitted
        /\ NeverComparedWithItself

LEMMA InitIInv == Init => IInv
<1> SUFFICES ASSUME Init PROVE IInv
  OBVIOUS
<1>1. \A r \in Runs : Committed(r) = {} /\ Due(r) # {}
  BY DEF Init, Committed, Due, Datasets
<1>2. ASSUME NEW r \in Runs PROVE RunInv(r)
  BY <1>1, BatchAssumption DEF Init, RunInv, Ladder, Fragments, Modes, Exits, InSeed, InCsv,
        Prices, History
<1>3. Range(historyCsv) = {} /\ \A q \in Runs : Range(existing[q]) = {}
  BY DEF Init, Range
<1>4. Shown
  BY <1>3, BatchAssumption DEF Init, Shown, Backed, InCsvFiles
<1>5. LineageNamesCommitted /\ NeverComparedWithItself
  BY BatchAssumption DEF Init, LineageNamesCommitted, NeverComparedWithItself
<1>6. \A r \in Runs : Unseen(r)
  BY <1>3, BatchAssumption DEF Init, Unseen
<1> QED BY <1>2, <1>4, <1>5, <1>6 DEF IInv

-----------------------------------------------------------------------------
(* What a step leaves alone                                                *)

\* No step changes a command line or takes a batch out of the lake.
LEMMA LakeGrows ==
    ASSUME TypeOK, NEW r \in Runs, Step(r)
    PROVE  /\ opts' = opts
           /\ manifests \subseteq manifests'
           /\ manifests' \subseteq manifests \cup {<<r, dataset[r]>>}
           /\ landing' \subseteq landing \cup {<<r, dataset[r]>>}
           /\ bronze' \subseteq bronze \cup {<<r, dataset[r]>>}
BY DEF Step, Start, Live, SeedFixtures, Fetch, Land, Stage, Commit, WriteLineage, LakeFails,
       ReadPrevious, ProjectPrices, AppendRead, AppendReplace, Report, SeedPrices,
       FillPrices, SeedHistory, FillHistory, Fails, Kill, input, lake

\* A step of one run leaves the other runs where they are.
LEMMA OthersStay ==
    ASSUME TypeOK, NEW r \in Runs, Step(r), NEW q \in Runs, q # r
    PROVE  pc'[q] = pc[q] /\ dataset'[q] = dataset[q] /\ exit'[q] = exit[q]
BY DEF TypeOK, Goto, End, ToNextDataset, Step, Start, Live, SeedFixtures, Fetch, Land, Stage,
       Commit, WriteLineage, LakeFails, ReadPrevious, ProjectPrices, AppendRead, AppendReplace,
       Report, SeedPrices, FillPrices, SeedHistory, FillHistory, Fails, Kill

LEMMA OthersInv ==
    ASSUME TypeOK, NEW r \in Runs, Step(r), NEW q \in Runs, q # r, RunInv(q)
    PROVE  RunInv(q)'
<1>1. pc'[q] = pc[q] /\ dataset'[q] = dataset[q] /\ exit'[q] = exit[q] /\ opts' = opts
  BY OthersStay, LakeGrows
<1>2. \A d \in Datasets : /\ <<q, d>> \in manifests' <=> <<q, d>> \in manifests
                          /\ <<q, d>> \in landing' => <<q, d>> \in landing
                          /\ <<q, d>> \in bronze' => <<q, d>> \in bronze
  BY LakeGrows
<1>3. Committed(q)' = Committed(q) /\ Due(q)' = Due(q)
  BY <1>1, <1>2 DEF Committed, Due
<1> QED BY <1>1, <1>2, <1>3 DEF RunInv, Ladder, Fragments, Modes, Exits

-----------------------------------------------------------------------------
(* Each action keeps its own run's invariant                               *)

\* A step that stays within the lake's contents.
LEMMA SameLake ==
    ASSUME NEW r \in Runs, opts' = opts, manifests' = manifests
    PROVE  Committed(r)' = Committed(r) /\ Due(r)' = Due(r)
BY DEF Committed, Due

LEMMA OwnInv ==
    ASSUME TypeOK, NEW r \in Runs, RunInv(r), Step(r)
    PROVE  RunInv(r)'
<1> USE DEF RunInv, Goto, End
<1>0. opts' = opts
  BY LakeGrows
<1>t. /\ pc = [q \in Runs |-> pc[q]] /\ dataset = [q \in Runs |-> dataset[q]]
      /\ exit = [q \in Runs |-> exit[q]] /\ dataset[r] \in Datasets
      /\ exit[r] \in {0, 1, 2, Nothing} /\ r \in DOMAIN pc
  BY DEF TypeOK
<1>1. CASE Start(r)
  <2>1. /\ pc[r] = "idle" /\ pc'[r] = IF r \in Seeders THEN "seedPrices" ELSE "fetch"
        /\ UNCHANGED <<dataset, landing, bronze, manifests, exit>>
    BY <1>1, <1>t DEF Start, lake
  <2> QED BY <1>0, <1>t, <2>1, SameLake, BatchAssumption
          DEF Ladder, Fragments, Modes, Exits, InSeed, InCsv
<1>2. CASE Fetch(r)
  <2>1. /\ pc[r] = "fetch"
        /\ (pc'[r] = "land" /\ exit' = exit) \/ (pc'[r] = "ended" /\ exit'[r] = 1)
        /\ UNCHANGED <<dataset, landing, bronze, manifests>>
    BY <1>2, <1>t DEF Fetch, lake
  <2> QED BY <1>0, <1>t, <2>1, SameLake, BatchAssumption
          DEF Ladder, Fragments, Modes, Exits, InSeed, InCsv, Due
<1>3. CASE Land(r) \/ Stage(r)
  <2>1. /\ \/ pc[r] = "land" /\ pc'[r] = "stage"
           \/ pc[r] = "stage" /\ pc'[r] = "commit"
        /\ UNCHANGED <<dataset, manifests, exit>>
    BY <1>3, <1>t DEF Land, Stage
  <2>2. \A d \in Datasets : <<r, d>> \in landing' \cup bronze' =>
            <<r, d>> \in landing \cup bronze \/ d = dataset[r]
    <3>1. /\ landing' \subseteq landing \cup {<<r, dataset[r]>>}
          /\ bronze' \subseteq bronze \cup {<<r, dataset[r]>>}
      BY LakeGrows
    <3> QED BY <3>1
  <2>3. exit[r] = Nothing /\ Nothing # 0
    BY <2>1, BatchAssumption DEF Exits
  <2>4. Fragments(r)'
    BY <2>1, <2>2, <2>3 DEF Fragments
  <2> QED BY <1>0, <1>t, <2>1, <2>4, SameLake
          DEF Ladder, Modes, Exits, InSeed, InCsv
<1>4. CASE Commit(r)
  <2>1. /\ pc[r] = "commit" /\ pc'[r] = "lineage"
        /\ UNCHANGED <<dataset, landing, bronze, exit>>
        /\ manifests' = manifests \cup {<<r, dataset[r]>>}
    BY <1>4, <1>t DEF Commit
  <2>2. Committed(r)' = Committed(r) \cup {dataset[r]} /\ Due(r)' = Due(r)
    BY <1>0, <1>t, <2>1 DEF Committed, Due
  <2>3. exit[r] = Nothing /\ Nothing \notin {0, 2}
    BY <2>1, BatchAssumption DEF Exits
  <2>4. Fragments(r)'
    BY <2>1, <2>3 DEF Fragments
  <2>5. Ladder(r)'
    BY <2>1, <2>2 DEF Ladder, InCsv, Prices, History
  <2> QED BY <2>1, <2>3, <2>4, <2>5 DEF Modes, Exits, InSeed
<1>5. CASE WriteLineage(r)
  <2>1. /\ pc[r] = "lineage" /\ UNCHANGED <<landing, bronze, manifests, exit>>
        /\ \/ /\ MoreToLake(r) /\ dataset'[r] = History /\ pc'[r] = "land"
           \/ /\ ~ MoreToLake(r) /\ dataset' = dataset
              /\ pc'[r] \in {"readPrevious", "report"}
    BY <1>5, <1>t DEF WriteLineage, ToNextDataset
  <2>2. exit[r] = Nothing /\ Nothing \notin {0, 2}
    BY <2>1, BatchAssumption DEF Exits
  <2>3. Committed(r)' = Committed(r) /\ Due(r)' = Due(r)
    BY <1>0, <2>1, SameLake
  <2>4. CASE MoreToLake(r)
    <3>1. dataset[r] = Prices /\ Due(r) = Datasets
      BY <2>4 DEF MoreToLake, Due
    <3> QED BY <2>1, <2>2, <2>3, <2>4, <3>1
            DEF Ladder, Fragments, Modes, Exits, InSeed, InCsv, Datasets, Prices, History
  <2>5. CASE ~ MoreToLake(r)
    <3>1. Due(r) \subseteq Committed(r)
      BY <1>t, <2>1, <2>5 DEF MoreToLake, Due, Ladder, Datasets
    <3> QED BY <2>1, <2>2, <2>3, <2>5, <3>1 DEF Ladder, Fragments, Modes, Exits, InSeed, InCsv
  <2> QED BY <2>4, <2>5
<1>6. CASE LakeFails(r)
  <2>1. /\ pc[r] \in {"fetch"} \cup InLake /\ pc'[r] = "ended" /\ exit'[r] = 2
        /\ UNCHANGED <<dataset, landing, bronze, manifests>>
    BY <1>6, <1>t DEF LakeFails, lake
  <2> QED BY <1>0, <2>1, SameLake DEF Ladder, Fragments, Modes, Exits, InLake, InSeed, InCsv
<1>7. CASE ReadPrevious(r) \/ ProjectPrices(r) \/ AppendRead(r) \/ AppendReplace(r)
  <2>1. /\ pc[r] \in InCsv /\ pc'[r] \in InCsv \cup {"report"}
        /\ UNCHANGED <<dataset, landing, bronze, manifests, exit>>
    BY <1>7, <1>t DEF ReadPrevious, ProjectPrices, AppendRead, AppendReplace, InCsv, lake
  <2> QED BY <1>0, <2>1, SameLake, BatchAssumption
          DEF Ladder, Fragments, Modes, Exits, InSeed, InCsv
<1>8. CASE Report(r)
  <2>1. /\ pc[r] = "report" /\ pc'[r] = "ended" /\ exit'[r] \in {0, 1}
        /\ UNCHANGED <<dataset, landing, bronze, manifests>>
    BY <1>8, <1>t DEF Report, lake
  <2> QED BY <1>0, <2>1, SameLake DEF Ladder, Fragments, Modes, Exits, InSeed, InCsv
<1>9. CASE SeedFixtures(r)
  <2>1. /\ pc[r] \in InSeed
        /\ \/ pc'[r] \in InSeed /\ exit' = exit
           \/ pc'[r] = "ended" /\ exit'[r] = 0
        /\ UNCHANGED <<dataset, landing, bronze, manifests>>
    BY <1>9, <1>t DEF SeedFixtures, SeedPrices, FillPrices, SeedHistory, FillHistory, InSeed, lake
  <2>2. r \in Seeders
    BY <2>1 DEF Modes
  <2>3. \A d \in Datasets : <<r, d>> \in landing \cup bronze => <<r, d>> \in manifests
    BY <2>1 DEF Fragments, InSeed
  <2> QED BY <1>0, <2>1, <2>2, <2>3, SameLake, BatchAssumption
          DEF Ladder, Fragments, Modes, Exits, InSeed, InCsv
<1>10. CASE Fails(r) \/ Kill(r)
  <2>1. /\ pc[r] \in Running
        /\ \/ pc'[r] = "ended" /\ exit'[r] = 1
           \/ pc'[r] = "killed" /\ exit' = exit
        /\ UNCHANGED <<dataset, landing, bronze, manifests>>
    BY <1>10, <1>t DEF Fails, Kill, lake
  <2>2. pc[r] # "ended"
    BY <2>1 DEF Running, InLake, InCsv, InSeed
  <2> QED BY <1>0, <2>1, <2>2, SameLake, BatchAssumption
          DEF Ladder, Fragments, Modes, Exits, InSeed, InCsv
<1> QED BY <1>1, <1>2, <1>3, <1>4, <1>5, <1>6, <1>7, <1>8, <1>9, <1>10 DEF Step, Live

-----------------------------------------------------------------------------
(* The projections                                                         *)

\* What a step does to the texts: only AppendReplace adds the run itself, after
\* what it read; everything else a text holds was in some text before.
LEMMA TextsOfStep ==
    ASSUME TypeOK, NEW r \in Runs, Step(r)
    PROVE  /\ \A b \in Runs \cap Range(historyCsv)' :
                \/ b \in Range(historyCsv) \/ b \in Range(existing[r])
                \/ b = r /\ pc[r] = "appendReplace" /\ pc'[r] = "report"
           /\ \A q \in Runs : \A b \in Range(existing[q])' :
                b \in Range(existing[q]) \/ b \in Range(historyCsv)
           /\ \/ pricesCsv' = pricesCsv \/ pricesCsv' \notin Runs
              \/ pricesCsv' = r /\ pc[r] = "prices"
<1>t. /\ pc = [q \in Runs |-> pc[q]] /\ existing = [q \in Runs |-> existing[q]]
      /\ historyCsv \in Seq(Batches) /\ existing[r] \in Seq(Batches) /\ r \in Batches
  BY DEF TypeOK, Batches
<1>1. CASE AppendReplace(r)
  <2>1. Range(historyCsv)' = Range(existing[r]) \cup {r}
    <3>1. historyCsv' = Append(existing[r], r)
      BY <1>1 DEF AppendReplace
    <3>2. Range(Append(existing[r], r)) = Range(existing[r]) \cup {r}
      BY <1>t, RangeOfAppend
    <3> QED BY <3>1, <3>2
  <2>2. UNCHANGED <<existing, pricesCsv>> /\ pc[r] = "appendReplace" /\ pc'[r] = "report"
    BY <1>1, <1>t DEF AppendReplace, Goto
  <2> QED BY <2>1, <2>2
<1>2. CASE AppendRead(r)
  <2>1. /\ UNCHANGED <<historyCsv, pricesCsv>>
        /\ \A q \in Runs : existing'[q] = existing[q] \/ existing'[q] = historyCsv
    BY <1>2, <1>t DEF AppendRead, csv
  <2> QED BY <2>1
<1>3. CASE ProjectPrices(r)
  <2>1. UNCHANGED <<historyCsv, existing>> /\ pricesCsv' = r /\ pc[r] = "prices"
    BY <1>3 DEF ProjectPrices
  <2> QED BY <2>1
<1>4. CASE SeedPrices(r) \/ FillPrices(r)
  <2>1. /\ UNCHANGED <<historyCsv, existing>>
        /\ pricesCsv' \notin Runs \/ pricesCsv' = pricesCsv
    BY <1>4, BatchAssumption DEF SeedPrices, FillPrices
  <2> QED BY <2>1
<1>5. CASE SeedHistory(r) \/ FillHistory(r)
  <2>1. /\ UNCHANGED <<pricesCsv, existing>>
        /\ historyCsv' \in {<<>>, <<Fixture>>} \/ historyCsv' = historyCsv
    BY <1>5 DEF SeedHistory, FillHistory
  <2>2. Range(<<>>) = {} /\ Range(<<Fixture>>) = {Fixture}
    BY DEF Range
  <2>3. Runs \cap Range(historyCsv)' = {} \/ Range(historyCsv)' = Range(historyCsv)
    BY <2>1, <2>2, BatchAssumption
  <2> QED BY <2>1, <2>3
<1>6. CASE UNCHANGED <<pricesCsv, historyCsv, existing>>
  BY <1>6
<1> QED BY <1>1, <1>2, <1>3, <1>4, <1>5, <1>6
        DEF Step, Live, SeedFixtures, Start, Fetch, Land, Stage, Commit, WriteLineage,
            LakeFails, ReadPrevious, Report, Fails, Kill, csv

\* Only committed runs reach a text.
LEMMA ShownStep ==
    ASSUME TypeOK, IInv, NEW r \in Runs, Step(r)
    PROVE  Shown'
<1> DEFINE OK(b) == Due(b) \subseteq Committed(b)
<1>1. ASSUME NEW b \in Runs, OK(b) PROVE OK(b)'
  <2>1. opts' = opts /\ manifests \subseteq manifests'
    BY LakeGrows
  <2> QED BY <1>1, <2>1 DEF Due, Committed
<1>2. pc[r] \in InCsv => OK(r)
  BY DEF IInv, RunInv, Ladder
<1>3. \A b \in Runs : b \in InCsvFiles => OK(b)
  BY DEF IInv, Shown, Backed
<1>4. \A b \in Runs, q \in Runs : b \in Range(existing[q]) => OK(b)
  BY DEF IInv, Shown, Backed
<1> HIDE DEF OK
<1>5. ASSUME NEW b \in Runs, b \in InCsvFiles' PROVE OK(b)'
  BY <1>1, <1>2, <1>3, <1>4, <1>5, TextsOfStep DEF InCsvFiles, InCsv
<1>6. ASSUME NEW b \in Runs, NEW q \in Runs, b \in Range(existing[q])' PROVE OK(b)'
  BY <1>1, <1>3, <1>4, <1>6, TextsOfStep DEF InCsvFiles
<1> QED BY <1>5, <1>6 DEF Shown, Backed, OK

\* A run that has not appended yet, or never will, stays out of every text.
LEMMA UnseenStep ==
    ASSUME TypeOK, IInv, NEW r \in Runs, Step(r), NEW q \in Runs
    PROVE  Unseen(q)'
<1>0. q # r => pc'[q] = pc[q] /\ exit'[q] = exit[q]
  BY OthersStay
<1>1. (BeforeCsv(q)' => BeforeCsv(q)) /\ (BeforeAppend(q)' => BeforeAppend(q))
  <2>1. CASE q # r
    BY <1>0, <2>1 DEF BeforeCsv, BeforeAppend
  <2>2. CASE q = r
    BY <2>2 DEF BeforeCsv, BeforeAppend, TypeOK, Goto, End, InLake, InCsv, Step, Start, Live,
           SeedFixtures, Fetch, Land, Stage, Commit, WriteLineage, ToNextDataset, LakeFails,
           ReadPrevious, ProjectPrices, AppendRead, AppendReplace, Report, SeedPrices,
           FillPrices, SeedHistory, FillHistory, Fails, Kill
  <2> QED BY <2>1, <2>2
<1>2. /\ BeforeCsv(q) => pricesCsv # q
      /\ BeforeAppend(q) => /\ q \notin Range(historyCsv)
                            /\ \A p \in Runs : q \notin Range(existing[p])
  BY DEF IInv, Unseen
<1>3. pc[r] \in InCsv => exit[r] = Nothing
  BY DEF IInv, RunInv, Exits, InCsv
<1>4. BeforeAppend(q)' => ~ (q = r /\ pc[r] = "appendReplace" /\ pc'[r] = "report")
  <2> SUFFICES ASSUME q = r, pc[r] = "appendReplace", pc'[r] = "report" PROVE ~ BeforeAppend(r)'
    OBVIOUS
  <2>1. exit'[r] = Nothing
    BY <1>3 DEF TypeOK, Goto, End, InCsv, Step, Start, Live, SeedFixtures, Fetch, Land, Stage,
           Commit, WriteLineage, LakeFails, ReadPrevious, ProjectPrices, AppendRead,
           AppendReplace, Report, SeedPrices, FillPrices, SeedHistory, FillHistory, Fails, Kill
  <2> QED BY <2>1, BatchAssumption DEF BeforeAppend, BeforeCsv, InLake, InCsv
<1>5. BeforeCsv(q)' => ~ (q = r /\ pc[r] = "prices")
  BY <1>1, <1>3, BatchAssumption DEF BeforeCsv, InLake, InCsv
<1> QED BY <1>1, <1>2, <1>4, <1>5, TextsOfStep DEF Unseen

LEMMA LineageStep ==
    ASSUME TypeOK, IInv, NEW r \in Runs, Step(r)
    PROVE  LineageNamesCommitted'
<1> SUFFICES ASSUME NEW d \in Datasets, lineage'[d] # Nothing, NEW e \in {Prices, d}
             PROVE  <<lineage'[d], e>> \in manifests'
  BY DEF LineageNamesCommitted, Committed, Datasets
<1>1. manifests \subseteq manifests'
  BY LakeGrows
<1>2. CASE lineage'[d] = lineage[d]
  BY <1>1, <1>2 DEF IInv, LineageNamesCommitted, Committed
<1>3. CASE lineage'[d] # lineage[d]
  <2>1. pc[r] = "lineage" /\ lineage' = [lineage EXCEPT ![dataset[r]] = r]
    BY <1>3 DEF Step, Start, Live, SeedFixtures, Fetch, Land, Stage, Commit, WriteLineage,
       LakeFails, ReadPrevious, ProjectPrices, AppendRead, AppendReplace, Report, SeedPrices,
       FillPrices, SeedHistory, FillHistory, Fails, Kill, lake
  <2>2. dataset[r] = d /\ lineage'[d] = r
    BY <1>3, <2>1 DEF TypeOK
  <2>3. e \in Committed(r)
    BY <2>1, <2>2 DEF IInv, RunInv, Ladder, Datasets
  <2> QED BY <1>1, <2>2, <2>3 DEF Committed
<1> QED BY <1>2, <1>3

\* load_previous_prices runs before the run is in the history.
LEMMA PreviousStep ==
    ASSUME TypeOK, IInv, NEW r \in Runs, Step(r)
    PROVE  NeverComparedWithItself'
<1> SUFFICES ASSUME NEW q \in Runs, NEW s \in Symbols PROVE prev'[q][s] # q
  BY DEF NeverComparedWithItself
<1>1. CASE prev'[q] = prev[q]
  BY <1>1 DEF IInv, NeverComparedWithItself
<1>2. CASE prev'[q] # prev[q]
  <2>1. /\ pc[r] = "readPrevious"
        /\ prev' = [prev EXCEPT ![r] = [x \in Symbols |-> LastRow(historyCsv, x)]]
    BY <1>2 DEF Step, Start, Live, SeedFixtures, Fetch, Land, Stage, Commit, WriteLineage,
       LakeFails, ReadPrevious, ProjectPrices, AppendRead, AppendReplace, Report, SeedPrices,
       FillPrices, SeedHistory, FillHistory, Fails, Kill
  <2>2. q = r /\ prev'[q][s] = LastRow(historyCsv, s)
    BY <1>2, <2>1 DEF TypeOK
  <2>3. LastRow(historyCsv, s) \in Range(historyCsv) \cup {Nothing}
    BY LastRowInFile DEF TypeOK
  <2>4. r \notin Range(historyCsv)
    BY <2>1 DEF IInv, Unseen, BeforeAppend, InCsv
  <2> QED BY <2>2, <2>3, <2>4, BatchAssumption
<1> QED BY <1>1, <1>2

-----------------------------------------------------------------------------
(* The theorems                                                            *)

\* Everything the runs have in the lake, in the projections and in memory
\* agrees, in every reachable state.
THEOREM Inductive == Spec => []IInv
<1>1. TypeOK /\ IInv /\ [Next]_vars => IInv'
  <2> SUFFICES ASSUME TypeOK, IInv, [Next]_vars PROVE IInv'
    OBVIOUS
  <2>1. ASSUME NEW r \in Runs, Step(r) PROVE IInv'
    <3>1. ASSUME NEW q \in Runs PROVE RunInv(q)'
      BY <2>1, OwnInv, OthersInv DEF IInv
    <3> QED BY <2>1, <3>1, UnseenStep, ShownStep, LineageStep, PreviousStep DEF IInv
  <2>2. CASE UNCHANGED vars
    BY <2>2 DEF vars, IInv, RunInv, Ladder, Fragments, Modes, Exits, Unseen, BeforeCsv, BeforeAppend, Shown, Backed,
                InCsvFiles, Due, Committed, LineageNamesCommitted, NeverComparedWithItself
  <2> QED BY <2>1, <2>2 DEF Next
<1> QED BY <1>1, InitIInv, TypeCorrect, PTL DEF Spec

\* A row reaches a CSV projection only after everything its run writes to the
\* lake is committed.
THEOREM LakeFirstAlways == Spec => []LakeFirst
<1>1. IInv => LakeFirst
  BY DEF IInv, Shown, Backed, LakeFirst
<1> QED BY <1>1, Inductive, PTL

\* A run that reports a lake failure is in no projection, then or later.
THEOREM NoCsvOnLakeFailureAlways == Spec => []NoCsvOnLakeFailure
<1>1. IInv => NoCsvOnLakeFailure
  BY DEF IInv, Unseen, BeforeAppend, BeforeCsv, InCsvFiles, NoCsvOnLakeFailure
<1> QED BY <1>1, Inductive, PTL

\* The lineage file names committed batches only.
THEOREM LineageAlways == Spec => []LineageNamesCommitted
<1>1. IInv => LineageNamesCommitted
  BY DEF IInv
<1> QED BY <1>1, Inductive, PTL

\* A run that exits with 0 is wholly committed and left no half-written batch.
THEOREM SuccessIsDurableAlways == Spec => []SuccessIsDurable
<1>1. IInv => SuccessIsDurable
  BY DEF IInv, RunInv, Fragments, Exits, SuccessIsDurable
<1> QED BY <1>1, Inductive, PTL

\* "Since last check" never compares a price with itself, with any overlap.
THEOREM NeverComparedWithItselfAlways == Spec => []NeverComparedWithItself
<1>1. IInv => NeverComparedWithItself
  BY DEF IInv
<1> QED BY <1>1, Inductive, PTL

-----------------------------------------------------------------------------
(* Refinement                                                              *)

\* Each step of a run is a step of CommittedLake, or one its readers cannot see.
LEMMA ReadableStep ==
    ASSUME TypeOK, IInv, NEW r \in Runs, Step(r)
    PROVE  [Readable!Next]_<<manifests, lineage>>
<1>t. dataset[r] \in Datasets /\ Datasets = Readable!Datasets
  BY DEF TypeOK, Datasets, Prices, History, Readable!Datasets, Readable!Prices, Readable!History
<1>1. CASE Commit(r)
  <2>1. pc[r] = "commit" /\ manifests' = manifests \cup {<<r, dataset[r]>>} /\ lineage' = lineage
    BY <1>1 DEF Commit
  <2>2. dataset[r] = History => Prices \in Committed(r)
    BY <1>1 DEF IInv, RunInv, Ladder
  <2>3. Readable!Commit(r, dataset[r])
    BY <2>1, <2>2 DEF Readable!Commit, Committed, Prices, History,
       Readable!Prices, Readable!History
  <2> QED BY <1>t, <2>3 DEF Readable!Next
<1>2. CASE WriteLineage(r)
  <2>1. /\ pc[r] = "lineage" /\ manifests' = manifests
        /\ lineage' = [lineage EXCEPT ![dataset[r]] = r]
    BY <1>2 DEF WriteLineage
  <2>2. <<r, dataset[r]>> \in manifests
    BY <2>1 DEF IInv, RunInv, Ladder, Committed
  <2>3. Readable!NameInLineage(r, dataset[r])
    BY <2>1, <2>2 DEF Readable!NameInLineage
  <2> QED BY <1>t, <2>3 DEF Readable!Next
<1>3. CASE ~ Commit(r) /\ ~ WriteLineage(r)
  <2>1. UNCHANGED <<manifests, lineage>>
    BY <1>3 DEF Step, Start, Live, SeedFixtures, Fetch, Land, Stage, LakeFails,
       ReadPrevious, ProjectPrices, AppendRead, AppendReplace, Report, SeedPrices,
       FillPrices, SeedHistory, FillHistory, Fails, Kill, lake
  <2> QED BY <2>1
<1> QED BY <1>1, <1>2, <1>3

\* The ingest commands implement CommittedLake, which StoreApi reads: batches
\* appear one at a time, prices first, and stay; the lineage names them only.
THEOREM Implements == Spec => ImplementsCommittedLake
<1>1. Init => Readable!Init
  BY DEF Init, Readable!Init, Datasets, Prices, History, Readable!Datasets,
         Readable!Prices, Readable!History
<1>2. TypeOK /\ IInv /\ [Next]_vars => [Readable!Next]_<<manifests, lineage>>
  BY ReadableStep DEF Next, vars
<1> QED BY <1>1, <1>2, TypeCorrect, Inductive, PTL DEF Spec, ImplementsCommittedLake, Readable!Spec
=============================================================================
