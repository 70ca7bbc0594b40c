--------------------------- MODULE LoneRunProofs ---------------------------
(***************************************************************************)
(* What LakeIngest guarantees a run that is on its own, whatever overlaps  *)
(* before it and after it.                                                 *)
(***************************************************************************)
EXTENDS LakeIngestProofs

Lone == { r \in Runs : opts[r].alone }

\* No other run is going on beside one on its own.
Apart == \A p \in Lone, q \in Runs : p # q /\ pc[p] \in Running => pc[q] \notin Running

NobodySeeds == \A f \in Seeders : pc[f] = "idle"

\* A run that goes on was going on, or started.
LEMMA RunningBefore ==
    ASSUME TypeOK, NEW r \in Runs, Step(r)
    PROVE  pc[r] \in Running \/ Start(r)
BY DEF Running, InLake, InCsv, InSeed, Step, Live, SeedFixtures, Fetch, Land, Stage, Commit,
       WriteLineage, LakeFails, ReadPrevious, ProjectPrices, AppendRead, AppendReplace, Report,
       SeedPrices, FillPrices, SeedHistory, FillHistory, Fails, Kill

LEMMA ApartStep ==
    ASSUME TypeOK, Apart, NEW r \in Runs, Step(r)
    PROVE  Apart'
<1>1. Lone' = Lone /\ Lone \subseteq Runs
  BY LakeGrows DEF Lone
<1>2. \A q \in Runs : q # r => pc'[q] = pc[q]
  BY OthersStay
<1>3. CASE pc[r] \in Running
  BY <1>1, <1>2, <1>3 DEF Apart
<1>4. CASE Start(r)
  <2>1. \A q \in Runs : pc[q] \in Running => q \notin Lone /\ r \notin Lone
    BY <1>4 DEF Start, Lone
  <2> QED BY <1>1, <1>2, <2>1 DEF Apart
<1> QED BY <1>3, <1>4, RunningBefore

THEOREM ApartAlways == Spec => []Apart
<1>1. Init => Apart
  BY DEF Init, Apart, Lone, Running, InLake, InCsv, InSeed
<1>2. TypeOK /\ Apart /\ [Next]_vars => Apart'
  <2>1. Apart /\ UNCHANGED vars => Apart'
    BY DEF vars, Apart, Lone
  <2> QED BY <2>1, ApartStep DEF Next
<1> QED BY <1>1, <1>2, TypeCorrect, PTL DEF Spec

-----------------------------------------------------------------------------
(* Rows that stay                                                          *)

\* A run on its own that has appended is in the file, and in every text that
\* an append is about to replace it with.
Appended(r) == /\ opts[r] = [history |-> TRUE, csv |-> TRUE, alone |-> TRUE]
               /\ pc[r] = "report" \/ exit[r] = 0
Stays(r) == /\ r \in Range(historyCsv)
            /\ \A q \in Runs : pc[q] = "appendReplace" => r \in Range(existing[q])
Kept == NobodySeeds => \A r \in Runs : Appended(r) => Stays(r)

\* Before fixtures are seeded, a run that takes a step does not seed them.
LEMMA NobodySeededYet ==
    ASSUME TypeOK, IInv, NEW r \in Runs, Step(r), NobodySeeds'
    PROVE  NobodySeeds /\ r \notin Seeders /\ ~ SeedFixtures(r)
<1>1. pc'[r] # "idle"
  BY DEF TypeOK, Goto, End, Step, Start, Live, SeedFixtures, Fetch, Land, Stage, Commit,
         WriteLineage, ToNextDataset, LakeFails, ReadPrevious, ProjectPrices, AppendRead,
         AppendReplace, Report, SeedPrices, FillPrices, SeedHistory, FillHistory, Fails, Kill
<1>2. r \notin Seeders
  BY <1>1 DEF NobodySeeds
<1>3. NobodySeeds
  BY <1>2, OthersStay, SeedersAssumption DEF NobodySeeds
<1>4. pc[r] \notin InSeed
  BY <1>2 DEF IInv, RunInv, Modes
<1> QED BY <1>2, <1>3, <1>4 DEF SeedFixtures, SeedPrices, FillPrices, SeedHistory, FillHistory,
        InSeed

\* What is in the file and in every waiting text stays there.
LEMMA StaysStep ==
    ASSUME TypeOK, NEW r \in Runs, Step(r), ~ SeedFixtures(r), NEW b \in Runs, Stays(b)
    PROVE  Stays(b)'
<1>t. /\ pc = [q \in Runs |-> pc[q]] /\ existing = [q \in Runs |-> existing[q]]
      /\ existing[r] \in Seq(Batches) /\ r \in Batches
  BY DEF TypeOK, Batches
<1>1. CASE AppendReplace(r)
  <2>1. historyCsv' = Append(existing[r], r) /\ existing' = existing /\ pc[r] = "appendReplace"
    BY <1>1 DEF AppendReplace
  <2>2. Range(Append(existing[r], r)) = Range(existing[r]) \cup {r}
    BY <1>t, RangeOfAppend
  <2>3. \A q \in Runs : pc'[q] = "appendReplace" => pc[q] = "appendReplace"
    BY <1>t, <1>1 DEF AppendReplace, Goto
  <2>4. b \in Range(historyCsv')
    BY <2>1, <2>2 DEF Stays
  <2> QED BY <2>1, <2>3, <2>4 DEF Stays
<1>2. CASE AppendRead(r)
  <2>1. /\ historyCsv' = historyCsv /\ existing'[r] = historyCsv
        /\ \A q \in Runs : q # r => existing'[q] = existing[q] /\ pc'[q] = pc[q]
    BY <1>t, <1>2 DEF AppendRead, csv, Goto
  <2> QED BY <2>1 DEF Stays
<1>3. CASE ~ AppendReplace(r) /\ ~ AppendRead(r)
  <2>1. UNCHANGED <<historyCsv, existing>>
    BY <1>3 DEF Step, Start, Live, Fetch, Land, Stage, Commit, WriteLineage, LakeFails,
       ReadPrevious, ProjectPrices, Report, Fails, Kill, csv
  <2>2. pc'[r] # "appendReplace"
    BY <1>t, <1>3 DEF Goto, End, ToNextDataset, Step, Start, Live, Fetch, Land, Stage, Commit,
       WriteLineage, LakeFails, ReadPrevious, ProjectPrices, Report, Fails, Kill
  <2>3. \A q \in Runs : pc'[q] = "appendReplace" => pc[q] = "appendReplace"
    BY <2>2, OthersStay
  <2> QED BY <2>1, <2>3 DEF Stays
<1> QED BY <1>1, <1>2, <1>3

\* A run on its own has appended when it has replaced the file.
LEMMA AppendedByReplace ==
    ASSUME TypeOK, IInv, NEW r \in Runs, Step(r), ~ SeedFixtures(r),
           ~ Appended(r), Appended(r)'
    PROVE  AppendReplace(r) /\ r \in Lone
<1>t. /\ pc = [q \in Runs |-> pc[q]] /\ exit = [q \in Runs |-> exit[q]]
  BY DEF TypeOK
<1>1. opts'[r] = opts[r] /\ opts[r].history /\ opts[r].csv /\ opts[r].alone
  BY LakeGrows DEF Appended
<1>2. pc[r] # "report" /\ exit[r] # 0
  BY <1>1 DEF Appended
<1>3. pc'[r] = "report" \/ exit'[r] = 0
  BY DEF Appended
<1>4. CASE Start(r) \/ Fetch(r) \/ Land(r) \/ Stage(r) \/ Commit(r)
  BY <1>t, <1>2, <1>3, <1>4 DEF Goto, End, Start, Fetch, Land, Stage, Commit
<1>5. CASE WriteLineage(r)
  BY <1>t, <1>1, <1>2, <1>3, <1>5 DEF Goto, WriteLineage, ToNextDataset
<1>6. CASE LakeFails(r) \/ ReadPrevious(r) \/ AppendRead(r) \/ Fails(r) \/ Kill(r)
  BY <1>t, <1>2, <1>3, <1>6 DEF Goto, End, LakeFails, ReadPrevious, AppendRead, Fails, Kill
<1>7. CASE ProjectPrices(r) \/ Report(r)
  BY <1>t, <1>1, <1>2, <1>3, <1>7 DEF Goto, End, ProjectPrices, Report
<1> QED BY <1>1, <1>4, <1>5, <1>6, <1>7 DEF Step, Live, Lone

LEMMA KeptStep ==
    ASSUME TypeOK, IInv, Apart, Kept, NEW r \in Runs, Step(r)
    PROVE  Kept'
<1> SUFFICES ASSUME NobodySeeds', NEW b \in Runs, Appended(b)' PROVE Stays(b)'
  BY DEF Kept
<1>1. NobodySeeds /\ ~ SeedFixtures(r)
  BY NobodySeededYet
<1>2. CASE Appended(b)
  BY <1>1, <1>2, StaysStep DEF Kept
<1>3. CASE ~ Appended(b)
  <2>1. b = r
    <3>1. opts' = opts
      BY LakeGrows
    <3> QED BY <1>3, <3>1, OthersStay DEF Appended
  <2>2. AppendReplace(r) /\ r \in Lone
    BY <1>1, <1>3, <2>1, AppendedByReplace
  <2>3. historyCsv' = Append(existing[r], r) /\ pc[r] = "appendReplace" /\ pc'[r] = "report"
    BY <2>2 DEF AppendReplace, Goto, TypeOK
  <2>4. r \in Range(historyCsv')
    <3>1. existing[r] \in Seq(Batches) /\ r \in Batches
      BY DEF TypeOK, Batches
    <3>2. Range(Append(existing[r], r)) = Range(existing[r]) \cup {r}
      BY <3>1, RangeOfAppend
    <3> QED BY <2>3, <3>2
  <2>5. \A q \in Runs : pc'[q] # "appendReplace"
    <3>1. \A q \in Runs : q # r => pc[q] \notin Running
      BY <2>2, <2>3 DEF Apart, Running, InCsv
    <3> QED BY <2>3, <3>1, OthersStay DEF Running, InCsv
  <2> QED BY <2>1, <2>4, <2>5 DEF Stays
<1> QED BY <1>2, <1>3

\* The rows that a run on its own appends to the history stay there, whatever
\* overlaps later, until fixtures are seeded.
THEOREM LoneRowsStayAlways == Spec => []LoneRowsStay
<1>1. Init => Kept
  BY BatchAssumption DEF Init, Kept, Appended
<1>2. TypeOK /\ IInv /\ Apart /\ Kept /\ [Next]_vars => Kept'
  <2>1. Kept /\ UNCHANGED vars => Kept'
    BY DEF vars, Kept, NobodySeeds, Appended, Stays
  <2> QED BY <2>1, KeptStep DEF Next
<1>3. Kept => LoneRowsStay
  BY DEF Kept, NobodySeeds, Appended, Stays, LoneRowsStay
<1> QED BY <1>1, <1>2, <1>3, TypeCorrect, Inductive, ApartAlways, PTL DEF Spec

-----------------------------------------------------------------------------
(* The last check                                                          *)

\* The batch b last recorded a price of s in the first n rows of h, if any did,
\* where Q has the symbols of each run.
Symb(b, Q) == IF b = Fixture THEN Symbols ELSE Q[b]
LastBefore(h, n, s, b, Q) ==
    \/ b = Nothing /\ \A j \in 1..n : s \notin Symb(h[j], Q)
    \/ \E j \in 1..n : /\ b = h[j] /\ s \in Symb(h[j], Q)
                       /\ \A k \in (j + 1)..n : s \notin Symb(h[k], Q)

\* ComparedWithLastCheck for a text h, the prices P compared with, and a set A.
Sound(h, Q, P, A) ==
    \A i \in 1..Len(h) : h[i] \in A =>
        \A s \in Q[h[i]] : LastBefore(h, i - 1, s, P[h[i]][s], Q)

LEMMA LastBeforeSame ==
    ASSUME NEW h, NEW g, NEW n \in Nat, NEW s, NEW b, NEW Q, NEW R,
           \A j \in 1..n : h[j] = g[j] /\ Symb(h[j], Q) = Symb(g[j], R),
           LastBefore(h, n, s, b, Q)
    PROVE  LastBefore(g, n, s, b, R)
<1>1. CASE b = Nothing /\ \A j \in 1..n : s \notin Symb(h[j], Q)
  BY <1>1 DEF LastBefore
<1>2. ASSUME NEW j \in 1..n, b = h[j], s \in Symb(h[j], Q),
             \A k \in (j + 1)..n : s \notin Symb(h[k], Q)
      PROVE  LastBefore(g, n, s, b, R)
  <2>1. \A k \in (j + 1)..n : k \in 1..n
    OBVIOUS
  <2>2. b = g[j] /\ s \in Symb(g[j], R) /\ \A k \in (j + 1)..n : s \notin Symb(g[k], R)
    BY <1>2, <2>1
  <2> QED BY <2>2 DEF LastBefore
<1> QED BY <1>1, <1>2 DEF LastBefore

\* What runs outside a text fetch and read changes nothing in it.
LEMMA SoundSame ==
    ASSUME NEW h \in Seq(Batches), NEW A \in SUBSET Runs, NEW Q, NEW R, NEW P, NEW O,
           \A b \in Runs \cap Range(h) : Q[b] = R[b] /\ P[b] = O[b],
           Sound(h, Q, P, A)
    PROVE  Sound(h, R, O, A)
<1>1. \A j \in 1..Len(h) : /\ h[j] \in Runs \cup {Fixture}
                           /\ h[j] \in Runs => Q[h[j]] = R[h[j]] /\ P[h[j]] = O[h[j]]
  <2>1. \A j \in 1..Len(h) : h[j] \in Runs \cup {Fixture} /\ h[j] \in Range(h)
    BY DEF Batches, Range
  <2> QED BY <2>1
<1>2. \A j \in 1..Len(h) : Symb(h[j], Q) = Symb(h[j], R)
  BY <1>1 DEF Symb
<1>3. ASSUME NEW i \in 1..Len(h), h[i] \in A, NEW s \in R[h[i]]
      PROVE  LastBefore(h, i - 1, s, O[h[i]][s], R)
  <2>1. Q[h[i]] = R[h[i]] /\ P[h[i]] = O[h[i]] /\ Len(h) \in Nat
    BY <1>1, <1>3
  <2>2. LastBefore(h, i - 1, s, O[h[i]][s], Q)
    BY <1>3, <2>1 DEF Sound
  <2>3. i - 1 \in Nat /\ \A j \in 1..(i - 1) : j \in 1..Len(h)
    BY <2>1
  <2> QED BY <1>2, <2>2, <2>3, LastBeforeSame
<1> QED BY <1>3 DEF Sound

\* A run that compared with the last rows of a text may be appended to it.
LEMMA SoundAppend ==
    ASSUME NEW h \in Seq(Batches), NEW b \in Batches, NEW A, NEW Q, NEW P, Sound(h, Q, P, A),
           b \in A => \A s \in Q[b] : LastBefore(h, Len(h), s, P[b][s], Q)
    PROVE  Sound(Append(h, b), Q, P, A)
<1> DEFINE g == Append(h, b)
<1>1. Len(h) \in Nat /\ Len(g) = Len(h) + 1 /\ g[Len(h) + 1] = b
  OBVIOUS
<1>2. \A j \in 1..Len(h) : g[j] = h[j]
  OBVIOUS
<1> HIDE DEF g
<1>3. ASSUME NEW n \in 0..Len(h), NEW s, NEW x, LastBefore(h, n, s, x, Q)
      PROVE  LastBefore(g, n, s, x, Q)
  <2>1. n \in Nat /\ \A j \in 1..n : h[j] = g[j]
    BY <1>1, <1>2
  <2> QED BY <1>3, <2>1, LastBeforeSame
<1>4. ASSUME NEW i \in 1..Len(g), g[i] \in A, NEW s \in Q[g[i]]
      PROVE  LastBefore(g, i - 1, s, P[g[i]][s], Q)
  <2>1. CASE i \in 1..Len(h)
    <3>1. g[i] = h[i] /\ i - 1 \in 0..Len(h)
      BY <1>1, <1>2, <2>1
    <3>2. LastBefore(h, i - 1, s, P[g[i]][s], Q)
      BY <1>4, <2>1, <3>1 DEF Sound
    <3> QED BY <1>3, <3>1, <3>2
  <2>2. CASE i = Len(h) + 1
    <3>1. g[i] = b /\ i - 1 = Len(h) /\ Len(h) \in 0..Len(h)
      BY <1>1, <2>2
    <3>2. LastBefore(h, Len(h), s, P[b][s], Q)
      BY <1>4, <3>1
    <3> QED BY <1>3, <3>1, <3>2
  <2> QED BY <1>1, <2>1, <2>2
<1> QED BY <1>4 DEF Sound, g

\* load_previous_prices finds the batch that last recorded a symbol.
LEMMA LastRowIsLast ==
    ASSUME NEW h \in Seq(Batches), NEW s
    PROVE  LastBefore(h, Len(h), s, LastRow(h, s), quotes)
<1>1. /\ RowsOf(h, s) \in SUBSET (1..Len(h)) /\ Len(h) \in Nat /\ DOMAIN h = 1..Len(h)
      /\ \A i \in 1..Len(h) : i \in RowsOf(h, s) <=> s \in Symb(h[i], quotes)
  BY DEF RowsOf, SymbolsOf, Symb
<1>2. CASE RowsOf(h, s) = {}
  BY <1>1, <1>2 DEF LastRow, LastBefore
<1>3. CASE RowsOf(h, s) # {}
  <2> DEFINE m == Max(RowsOf(h, s))
  <2>1. m \in RowsOf(h, s) /\ \A i \in RowsOf(h, s) : m >= i
    BY <1>1, <1>3, MaxOfPositions
  <2>2. LastRow(h, s) = h[m]
    BY <1>3 DEF LastRow
  <2> HIDE DEF m
  <2>3. m \in 1..Len(h) /\ s \in Symb(h[m], quotes)
    BY <1>1, <2>1
  <2>4. \A k \in (m + 1)..Len(h) : s \notin Symb(h[k], quotes)
    <3> SUFFICES ASSUME NEW k \in (m + 1)..Len(h), s \in Symb(h[k], quotes) PROVE FALSE
      OBVIOUS
    <3>1. k \in 1..Len(h) /\ k > m /\ m \in Nat
      BY <1>1, <2>3
    <3>2. k \in RowsOf(h, s)
      BY <1>1, <3>1
    <3>3. m >= k
      BY <2>1, <3>2
    <3> QED BY <3>1, <3>3
  <2> QED BY <2>2, <2>3, <2>4 DEF LastBefore
<1> QED BY <1>2, <1>3

\* The property holds of every text an append is about to write, and a run on its
\* own knows the last rows of the file from the moment it has read them.
Ready(r) == \A s \in Symbols : LastBefore(historyCsv, Len(historyCsv), s, prev[r][s], quotes)
Remembered ==
    /\ Sound(historyCsv, quotes, prev, Lone)
    /\ \A q \in Runs : pc[q] = "appendReplace" => Sound(existing[q], quotes, prev, Lone)
    /\ \A r \in Lone :
         /\ pc[r] \in {"prices", "appendRead", "appendReplace"} => Ready(r)
         /\ pc[r] = "appendReplace" => existing[r] = historyCsv

\* What a run in a text has fetched and read does not change.
LEMMA MemoryStays ==
    ASSUME TypeOK, IInv, NEW r \in Runs, Step(r), NEW b \in Runs,
           b \in Range(historyCsv) \/ \E q \in Runs : b \in Range(existing[q])
    PROVE  quotes[b] = quotes'[b] /\ prev[b] = prev'[b]
<1>1. CASE Fetch(r)
  <2>1. b # r
    BY <1>1 DEF IInv, Unseen, BeforeAppend, BeforeCsv, Fetch
  <2> QED BY <1>1, <2>1 DEF TypeOK, Fetch
<1>2. CASE ReadPrevious(r)
  <2>1. b # r
    BY <1>2 DEF IInv, Unseen, BeforeAppend, ReadPrevious, InCsv
  <2> QED BY <1>2, <2>1 DEF TypeOK, ReadPrevious, input
<1>3. CASE ~ Fetch(r) /\ ~ ReadPrevious(r)
  <2>1. UNCHANGED <<quotes, prev>>
    BY <1>3 DEF Step, Start, Live, SeedFixtures, Land, Stage, Commit, WriteLineage, LakeFails,
       ProjectPrices, AppendRead, AppendReplace, Report, SeedPrices, FillPrices, SeedHistory,
       FillHistory, Fails, Kill, input
  <2> QED BY <2>1
<1> QED BY <1>1, <1>2, <1>3

LEMMA RememberedStep ==
    ASSUME TypeOK, IInv, Apart, Remembered, NEW r \in Runs, Step(r)
    PROVE  Remembered'
<1>t. /\ pc = [q \in Runs |-> pc[q]] /\ existing = [q \in Runs |-> existing[q]]
      /\ historyCsv \in Seq(Batches) /\ \A q \in Runs : existing[q] \in Seq(Batches)
      /\ r \in Batches /\ prev \in [Runs -> [Symbols -> Batches \cup {Nothing}]]
      /\ quotes \in [Runs -> SUBSET Symbols]
  BY DEF TypeOK, Batches
<1>a. Lone' = Lone /\ Lone \in SUBSET Runs
  BY LakeGrows DEF Lone
\* The texts there were before the step.
<1>1. Sound(historyCsv, quotes', prev', Lone)
  <2>1. \A b \in Runs \cap Range(historyCsv) : quotes[b] = quotes'[b] /\ prev[b] = prev'[b]
    BY MemoryStays
  <2> QED BY <1>t, <1>a, <2>1, SoundSame DEF Remembered
<1>2. ASSUME NEW q \in Runs, pc[q] = "appendReplace"
      PROVE  Sound(existing[q], quotes', prev', Lone)
  <2>1. \A b \in Runs \cap Range(existing[q]) : quotes[b] = quotes'[b] /\ prev[b] = prev'[b]
    BY MemoryStays
  <2> QED BY <1>t, <1>a, <1>2, <2>1, SoundSame DEF Remembered
\* A run on its own that goes on is the only one to take a step.
<1>3. ASSUME NEW q \in Lone, pc[q] \in Running PROVE q = r
  <2>1. CASE pc[r] \in Running
    BY <1>a, <1>3, <2>1 DEF Apart
  <2>2. CASE Start(r)
    BY <1>3, <2>2 DEF Start, Lone
  <2> QED BY <2>1, <2>2, RunningBefore
<1>4. CASE AppendReplace(r)
  <2>1. /\ historyCsv' = Append(existing[r], r) /\ UNCHANGED <<quotes, prev, existing>>
        /\ pc[r] = "appendReplace" /\ pc'[r] = "report"
        /\ \A q \in Runs : pc'[q] = "appendReplace" => pc[q] = "appendReplace"
    BY <1>t, <1>4 DEF AppendReplace, Goto, input
  <2>2. r \in Lone => \A s \in quotes[r] :
           LastBefore(existing[r], Len(existing[r]), s, prev[r][s], quotes)
    BY <1>t, <2>1 DEF Remembered, Ready
  <2>3. Sound(Append(existing[r], r), quotes, prev, Lone)
    BY <1>t, <2>1, <2>2, SoundAppend DEF Remembered
  <2>4. \A q \in Lone : pc'[q] \notin {"prices", "appendRead", "appendReplace"}
    <3>1. ASSUME NEW q \in Lone, pc'[q] \in {"prices", "appendRead", "appendReplace"}
          PROVE  FALSE
      <4>1. q # r
        BY <2>1, <3>1
      <4>2. pc[q] \in Running
        BY <1>a, <3>1, <4>1, OthersStay DEF Running, InCsv
      <4> QED BY <1>3, <4>1, <4>2
    <3> QED BY <3>1
  <2> QED BY <1>a, <1>2, <2>1, <2>3, <2>4 DEF Remembered
<1>5. CASE SeedHistory(r) \/ (FillHistory(r) /\ historyCsv' # historyCsv)
  <2>1. /\ historyCsv' \in {<<>>, <<Fixture>>} /\ UNCHANGED <<quotes, prev, existing>>
        /\ pc[r] \in InSeed /\ pc'[r] \in {"fillHistory", "ended"}
        /\ \A q \in Runs : pc'[q] = "appendReplace" => pc[q] = "appendReplace"
    BY <1>t, <1>5 DEF SeedHistory, FillHistory, Goto, End, input, InSeed
  <2>2. Sound(historyCsv', quotes, prev, Lone)
    <3>1. Fixture \notin Lone
      BY <1>a, BatchAssumption
    <3>2. \A i \in 1..Len(historyCsv') : historyCsv'[i] = Fixture
      BY <2>1
    <3> QED BY <3>1, <3>2 DEF Sound
  <2>3. \A q \in Lone : pc'[q] \notin {"prices", "appendRead", "appendReplace"}
    <3>1. ASSUME NEW q \in Lone, pc'[q] \in {"prices", "appendRead", "appendReplace"}
          PROVE  FALSE
      <4>1. q # r
        BY <2>1, <3>1
      <4>2. pc[q] \in Running
        BY <1>a, <3>1, <4>1, OthersStay DEF Running, InCsv
      <4> QED BY <1>3, <4>1, <4>2
    <3> QED BY <3>1
  <2> QED BY <1>a, <1>2, <2>1, <2>2, <2>3 DEF Remembered
<1>6. CASE ReadPrevious(r)
  <2>1. /\ UNCHANGED <<historyCsv, existing, quotes>> /\ pc'[r] = "prices"
        /\ prev'[r] = [s \in Symbols |-> LastRow(historyCsv, s)]
        /\ \A q \in Runs : pc'[q] = "appendReplace" => pc[q] = "appendReplace"
    BY <1>t, <1>6 DEF ReadPrevious, Goto, csv, input
  <2>2. Ready(r)'
    BY <1>t, <2>1, LastRowIsLast DEF Ready
  <2>3. ASSUME NEW q \in Lone, q # r
        PROVE  pc'[q] \notin {"prices", "appendRead", "appendReplace"}
    BY <1>3, <1>a, <2>3, OthersStay DEF Running, InCsv
  <2>4. ASSUME NEW q \in Lone
        PROVE  /\ pc'[q] \in {"prices", "appendRead", "appendReplace"} => Ready(q)'
               /\ pc'[q] # "appendReplace"
    BY <2>1, <2>2, <2>3
  <2> QED BY <1>a, <1>1, <1>2, <2>1, <2>4 DEF Remembered
<1>7. CASE ProjectPrices(r) \/ AppendRead(r)
  <2>1. /\ UNCHANGED <<historyCsv, quotes, prev>>
        /\ pc[r] \in {"prices", "appendRead"}
        /\ \/ existing' = existing /\ pc'[r] # "appendReplace"
           \/ existing' = [existing EXCEPT ![r] = historyCsv]
        /\ \A q \in Runs : pc'[q] = "appendReplace" => pc[q] = "appendReplace" \/ q = r
    BY <1>t, <1>7 DEF ProjectPrices, AppendRead, Goto, csv, input
  <2>2. ASSUME NEW q \in Runs, pc'[q] = "appendReplace"
        PROVE  Sound(existing'[q], quotes, prev, Lone)
    BY <1>t, <1>1, <1>2, <2>1, <2>2
  <2>3. ASSUME NEW q \in Lone, q # r
        PROVE  pc'[q] \notin {"prices", "appendRead", "appendReplace"}
    BY <1>3, <1>a, <2>3, OthersStay DEF Running, InCsv
  <2>4. r \in Lone => Ready(r)
    BY <2>1 DEF Remembered
  <2>5. ASSUME NEW q \in Lone
        PROVE  /\ pc'[q] \in {"prices", "appendRead", "appendReplace"} => Ready(q)'
               /\ pc'[q] = "appendReplace" => existing'[q] = historyCsv'
    <3>1. CASE q # r
      BY <2>3, <3>1
    <3>2. CASE q = r
      <4>1. Ready(q)'
        BY <2>1, <2>4, <3>2 DEF Ready
      <4>2. pc'[r] = "appendReplace" => existing'[r] = historyCsv
        BY <1>t, <2>1
      <4> QED BY <2>1, <3>2, <4>1, <4>2
    <3> QED BY <3>1, <3>2
  <2> QED BY <1>a, <1>1, <2>1, <2>2, <2>5 DEF Remembered
<1>8. CASE /\ ~ AppendReplace(r) /\ ~ SeedHistory(r) /\ ~ ReadPrevious(r)
           /\ ~ (FillHistory(r) /\ historyCsv' # historyCsv)
           /\ ~ ProjectPrices(r) /\ ~ AppendRead(r)
  <2>1. UNCHANGED <<historyCsv, existing>>
    BY <1>8 DEF Step, Start, Live, SeedFixtures, Fetch, Land, Stage, Commit, WriteLineage,
       LakeFails, Report, SeedPrices, FillPrices, FillHistory, Fails, Kill, csv
  <2>2. pc'[r] \notin {"prices", "appendRead", "appendReplace"}
    BY <1>t, <1>8 DEF Goto, End, ToNextDataset, Step, Start, Live, SeedFixtures, Fetch, Land,
       Stage, Commit, WriteLineage, LakeFails, Report, SeedPrices, FillPrices, FillHistory,
       Fails, Kill
  <2>3. \A q \in Runs : pc'[q] = "appendReplace" => pc[q] = "appendReplace"
    BY <2>2, OthersStay
  <2>4. ASSUME NEW q \in Lone
        PROVE  pc'[q] \notin {"prices", "appendRead", "appendReplace"}
    BY <1>3, <1>a, <2>2, OthersStay DEF Running, InCsv
  <2> QED BY <1>a, <1>1, <1>2, <2>1, <2>3, <2>4 DEF Remembered
<1> QED BY <1>4, <1>5, <1>6, <1>7, <1>8

\* A run on its own compares each of its prices with the one recorded just before
\* it in the history, however the runs before and after it overlap.
THEOREM ComparedWithLastCheckAlways == Spec => []ComparedWithLastCheck
<1>1. Init => Remembered
  BY DEF Init, Remembered, Sound, Lone
<1>2. TypeOK /\ IInv /\ Apart /\ Remembered /\ [Next]_vars => Remembered'
  <2>1. Remembered /\ UNCHANGED vars => Remembered'
    BY DEF vars, Remembered, Lone, Ready
  <2> QED BY <2>1, RememberedStep DEF Next
<1>3. TypeOK /\ Remembered => ComparedWithLastCheck
  <2> SUFFICES ASSUME TypeOK, Remembered, NEW i \in DOMAIN historyCsv, historyCsv[i] \in Lone,
                      NEW s \in quotes[historyCsv[i]]
               PROVE  LastBefore(historyCsv, i - 1, s, prev[historyCsv[i]][s], quotes)
    BY DEF ComparedWithLastCheck, Lone, LastBefore, Symb, SymbolsOf
  <2>1. DOMAIN historyCsv = 1..Len(historyCsv)
    BY DEF TypeOK
  <2> QED BY <2>1 DEF Remembered, Sound
<1> QED BY <1>1, <1>2, <1>3, TypeCorrect, Inductive, ApartAlways, PTL DEF Spec
=============================================================================
