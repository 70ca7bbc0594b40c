-------------------------- MODULE AtomicFileProofs --------------------------
(***************************************************************************)
(* What AtomicFile guarantees for any number of callers, any overlap and   *)
(* any number of power losses.                                             *)
(***************************************************************************)
EXTENDS AtomicFile, SequenceTheorems, TLAPS

\* The texts that csv_text, atomic_write_csv and atomic_append_csv build are
\* texts of lines.
LEMMA TextTypes ==
    /\ Empty \in File
    /\ Before \subseteq File
    /\ \A w \in Writers : Replacement(w) \in File
    /\ \A w \in Writers, f \in File : Extension(f, w) \in File
<1>1. /\ \A x \in Writers \cup {Header, Old} : Whole(x) \in Line
  BY DEF Whole, Line
<1>2. ASSUME NEW w \in Writers, NEW h \in BOOLEAN
      PROVE  csv_text(w, h) \in Seq(Line)
  BY <1>1 DEF csv_text
<1>3. <<>> \in Seq(Line)
  OBVIOUS
<1>4. <<Whole(Header), Whole(Old)>> \in Seq(Line)
  BY <1>1
<1>5. ASSUME NEW w \in Writers, NEW f \in File
      PROVE  Extension(f, w) \in File
  <2>1. f.lines \in Seq(Line)
    BY DEF File
  <2>2. csv_text(w, f.lines = <<>>) \in Seq(Line)
    BY <1>2
  <2>3. f.lines \o csv_text(w, f.lines = <<>>) \in Seq(Line)
    BY <2>1, <2>2
  <2> QED BY <2>3 DEF Extension, File
<1>6. ASSUME NEW w \in Writers PROVE Replacement(w) \in File
  BY <1>2 DEF Replacement, File
<1> QED BY <1>3, <1>4, <1>5, <1>6 DEF Empty, Before, File

\* What an interrupted write leaves is a text of lines.
LEMMA PrefixTypes ==
    ASSUME NEW f \in File PROVE Prefixes(f) \subseteq File
<1>1. ASSUME NEW k \in 1..Len(f.lines) PROVE CutAt(f, k) \subseteq File
  <2> DEFINE cut == Append(SubSeq(f.lines, 1, k - 1), Torn(f.lines[k]))
  <2>1. f.lines \in Seq(Line) /\ Len(f.lines) \in Nat
    BY DEF File
  <2>2. SubSeq(f.lines, 1, k) \in Seq(Line) /\ SubSeq(f.lines, 1, k - 1) \in Seq(Line)
    BY <2>1
  <2>3. f.lines[k] \in Line
    BY <2>1
  <2>4. Torn(f.lines[k]) \in Line
    BY <2>3 DEF Line, Torn
  <2>5. cut \in Seq(Line)
    BY <2>2, <2>4
  <2>6. CutAt(f, k) = { [lines |-> SubSeq(f.lines, 1, k), ended |-> TRUE],
                        [lines |-> SubSeq(f.lines, 1, k), ended |-> FALSE],
                        [lines |-> cut, ended |-> FALSE] }
    BY DEF CutAt
  <2> HIDE DEF cut
  <2> QED BY <2>2, <2>5, <2>6 DEF File
<1> QED BY <1>1, TextTypes DEF Prefixes

-----------------------------------------------------------------------------
(* Type correctness                                                        *)

\* Every variable keeps its type, seed_fixtures included.
THEOREM TypeCorrect == Spec => []TypeOK
<1>1. Init => TypeOK
  BY TextTypes, MaxPowerLossAssumption
     DEF Init, TypeOK, Inode, Volatile, Durable
<1>2. TypeOK /\ [Next]_vars => TypeOK'
  <2> SUFFICES ASSUME TypeOK, [Next]_vars PROVE TypeOK'
    OBVIOUS
  <2> USE DEF TypeOK, Goto, InWrite, InTry, InSeed, Over, setting, temp, file
  <2>1. ASSUME NEW w \in Writers, Build(w) PROVE TypeOK'
    <3>1. TextOf(w) \in File
      BY TextTypes DEF TextOf, Inode
    <3> QED BY <2>1, <3>1 DEF Build
  <2>2. ASSUME NEW w \in Writers, Mkstemp(w) PROVE TypeOK'
    BY <2>2, TextTypes DEF Mkstemp, Volatile, Inode
  <2>3. ASSUME NEW w \in Writers, WriteTemp(w) PROVE TypeOK'
    BY <2>3 DEF WriteTemp, Volatile, Inode
  <2>4. ASSUME NEW w \in Writers, Fsync(w) PROVE TypeOK'
    BY <2>4 DEF Fsync, Inode
  <2>5. ASSUME NEW w \in Writers, OsReplace(w) PROVE TypeOK'
    BY <2>5 DEF OsReplace
  <2>6. ASSUME NEW w \in Writers,
               EnterTry(w) \/ Return(w) \/ Raise(w) \/ Kill(w) \/ SeedReturn(w)
        PROVE  TypeOK'
    BY <2>6 DEF EnterTry, Return, Raise, Kill, SeedReturn
  <2>6a. ASSUME NEW w \in Writers, RaiseOutsideTry(w) \/ Unlink(w) \/ UnlinkFails(w)
         PROVE  TypeOK'
    BY <2>6a DEF RaiseOutsideTry, Unlink, UnlinkFails
  <2>7. ASSUME NEW w \in Writers, SeedOpen(w) PROVE TypeOK'
    BY <2>7, TextTypes DEF SeedOpen, Volatile, Inode
  <2>8. ASSUME NEW w \in Writers, SeedWrite(w) PROVE TypeOK'
    <3>1. target' \in Inode /\ versions' \subseteq File
      <4>1. CASE w \in opened
        <5>1. Replacement(w) \in File
          BY TextTypes
        <5>2. Volatile(Replacement(w)) \in Inode
          BY <5>1 DEF Volatile, Inode
        <5>3. /\ target' = Volatile(Replacement(w))
              /\ versions' = versions \cup {Replacement(w)}
          BY <2>8, <4>1 DEF SeedWrite
        <5> QED BY <5>1, <5>2, <5>3
      <4>2. CASE w \notin opened
        BY <2>8, <4>2 DEF SeedWrite
      <4> QED BY <4>1, <4>2
    <3> QED BY <2>8, <3>1 DEF SeedWrite
  <2>9. ASSUME NEW w \in Writers, SeedFail(w) PROVE TypeOK'
    <3>1. target' \in Inode
      <4>1. CASE w \in opened
        <5>1. PICK f \in Prefixes(Replacement(w)) : target' = Volatile(f)
          BY <2>9, <4>1 DEF SeedFail
        <5>2. f \in File
          BY TextTypes, PrefixTypes
        <5> QED BY <5>1, <5>2 DEF Volatile, Inode
      <4>2. CASE w \notin opened
        BY <2>9, <4>2 DEF SeedFail
      <4> QED BY <4>1, <4>2
    <3> QED BY <2>9, <3>1 DEF SeedFail
  <2>10. CASE Commit
    <3>1. target.file \in File
      BY DEF Inode
    <3>2. Durable(target.file) \in Inode
      BY <3>1 DEF Durable, Inode
    <3>3. disk' \in Inode
      BY <2>10, <3>2 DEF Commit
    <3> QED BY <2>10, <3>3 DEF Commit
  <2>11. CASE PowerLoss
    <3>1. PICK f \in Survivors(disk) : target' = Durable(f) /\ disk' = Durable(f)
      BY <2>11 DEF PowerLoss
    <3>2. f \in File
      BY PrefixTypes DEF Survivors, Inode
    <3>3. target' \in Inode /\ disk' \in Inode
      BY <3>1, <3>2 DEF Durable, Inode
    <3>4. losses' \in 0..MaxPowerLoss
      BY <2>11, MaxPowerLossAssumption DEF PowerLoss
    <3> QED BY <2>11, <3>3, <3>4 DEF PowerLoss
  <2>12. CASE UNCHANGED vars
    BY <2>12 DEF vars
  <2> QED BY <2>1, <2>2, <2>3, <2>4, <2>5, <2>6, <2>6a, <2>7, <2>8, <2>9, <2>10,
        <2>11, <2>12
          DEF Next, Write, Seed
<1> QED BY <1>1, <1>2, PTL DEF Spec

-----------------------------------------------------------------------------
(* No temporary file left behind                                           *)

\* NoTempLeftBehind is not inductive: a call past os.replace must already have
\* no temporary file.
MayHaveTemp(w) ==
    \/ pc[w] \in {"made", "trying", "written", "synced", "handling", "killed"}
    \/ pc[w] = "raised" /\ w \in missed
TempOnlyBeforeReplace == \A w \in there : MayHaveTemp(w)

\* os.replace and the exception handler of atomic_write_text leave nothing in
\* the data directory: what stays there belongs to calls that were killed or
\* powered off, or that no handler ran to the end for.
THEOREM NoTempLeft == Spec => []NoTempLeftBehind
<1>1. Init => TempOnlyBeforeReplace
  BY DEF Init, TempOnlyBeforeReplace
<1>2. TypeOK /\ TempOnlyBeforeReplace /\ [Next]_vars => TempOnlyBeforeReplace'
  <2> SUFFICES ASSUME TypeOK, TempOnlyBeforeReplace, [Next]_vars, NEW w \in there'
               PROVE  MayHaveTemp(w)'
    BY DEF TempOnlyBeforeReplace
  <2> USE DEF TempOnlyBeforeReplace, MayHaveTemp, Goto, temp
  <2>0. pc = [v \in Writers |-> pc[v]] /\ there \subseteq Writers
    BY DEF TypeOK
  <2>1. ASSUME NEW v \in Writers, Write(v)
        PROVE  MayHaveTemp(w)'
    <3>1. CASE Build(v) \/ Mkstemp(v) \/ EnterTry(v)
      BY <2>0, <3>1 DEF Build, MayStart, Mkstemp, EnterTry
    <3>2. CASE WriteTemp(v) \/ Fsync(v)
      BY <2>0, <3>2 DEF WriteTemp, Fsync
    <3>3. CASE OsReplace(v) \/ Return(v)
      BY <2>0, <3>3 DEF OsReplace, Return
    <3>4. CASE RaiseOutsideTry(v)
      BY <2>0, <3>4 DEF RaiseOutsideTry
    <3>5. CASE Raise(v)
      <4>1. v \in there => pc[v] # "replaced"
        BY <2>0
      <4> QED BY <2>0, <3>5, <4>1 DEF Raise
    <3>6. CASE Unlink(v) \/ UnlinkFails(v) \/ Kill(v)
      BY <2>0, <3>6 DEF Unlink, UnlinkFails, Kill
    <3> QED BY <2>1, <3>1, <3>2, <3>3, <3>4, <3>5, <3>6 DEF Write
  <2>2. ASSUME NEW v \in Writers, Seed(v)
        PROVE  MayHaveTemp(w)'
    BY <2>0, <2>2 DEF Seed, SeedOpen, MayStart, SeedWrite, SeedReturn, SeedFail
  <2>3. CASE Commit
    BY <2>3 DEF Commit
  <2>4. CASE PowerLoss
    BY <2>0, <2>4 DEF PowerLoss, Active, InSeed
  <2>5. CASE UNCHANGED vars
    BY <2>5 DEF vars
  <2> QED BY <2>1, <2>2, <2>3, <2>4, <2>5 DEF Next
<1>3. TempOnlyBeforeReplace => NoTempLeftBehind
  BY DEF TempOnlyBeforeReplace, MayHaveTemp, NoTempLeftBehind, Active, InWrite, InTry
<1> QED BY <1>1, <1>2, <1>3, TypeCorrect, PTL DEF Spec

-----------------------------------------------------------------------------
(* The file is always a published version                                  *)

\* A text waiting to be written is a new version of one that was published;
\* what is about to be renamed is that text, and it is on the disk; and what a
\* reader sees, and what a power loss would leave, are published versions.
PendingText == \A w \in Writers : pc[w] \in InWrite => text[w] \in Abstract!NewVersions(w)
TempHoldsText == \A w \in Writers :
    /\ pc[w] \in {"written", "synced"} => tmp[w].file = text[w]
    /\ pc[w] = "synced" => tmp[w].durable
Published == /\ target.file \in versions /\ target.durable
             /\ disk.file \in versions /\ disk.durable
NobodySeeds == \A w \in Writers : pc[w] \notin InSeed

IInv == PendingText /\ TempHoldsText /\ Published /\ NobodySeeds

\* A call that has started never becomes idle again.
LEMMA SeededStays ==
    ASSUME TypeOK, [Next]_vars, NobodySeeded'
    PROVE  NobodySeeded
<1> SUFFICES ASSUME NEW s \in Seeders, pc[s] # "idle" PROVE pc'[s] # "idle"
  BY DEF NobodySeeded
<1> USE DEF Goto
<1>0. pc = [v \in Writers |-> pc[v]] /\ s \in Writers
  BY SeedersAssumption DEF TypeOK
<1>1. ASSUME NEW w \in Writers, Write(w) PROVE pc'[s] # "idle"
  BY <1>0, <1>1 DEF Write, Build, Mkstemp, EnterTry, WriteTemp, Fsync, OsReplace, Return,
       RaiseOutsideTry, Raise, Unlink, UnlinkFails, Kill
<1>2. ASSUME NEW w \in Writers, Seed(w) PROVE pc'[s] # "idle"
  <2>1. PICK end : pc' = [pc EXCEPT ![w] = end] /\ end # "idle"
    BY <1>2 DEF Seed, SeedOpen, SeedWrite, SeedReturn, SeedFail
  <2> QED BY <1>0, <2>1
<1>3. CASE Commit \/ PowerLoss \/ UNCHANGED vars
  BY <1>0, <1>3 DEF Commit, PowerLoss, vars
<1> QED BY <1>1, <1>2, <1>3 DEF Next

\* Versions are never forgotten, so a text waiting to be written stays one.
LEMMA NewVersionsGrow ==
    ASSUME NEW w \in Writers, versions \subseteq versions', UNCHANGED projection
    PROVE  Abstract!NewVersions(w) \subseteq Abstract!NewVersions(w)'
BY DEF Abstract!NewVersions, Abstract!Prices

LEMMA InitIInv == Init => IInv
BY DEF Init, IInv, PendingText, TempHoldsText, Published, NobodySeeds, InWrite, InTry,
       InSeed, Durable

\* One step of a call of fsutil: the invariant, and what the step
\* means to VersionedFile.
LEMMA WriteStep ==
    ASSUME TypeOK, IInv, NEW w \in Writers, Write(w), NobodySeeded, NobodySeeded'
    PROVE  /\ IInv'
           /\ Abstract!Publish(w) \/ UNCHANGED Abstract!vars
<1> USE DEF IInv, TypeOK, Goto, setting, temp, file
<1>0. versions \subseteq versions' /\ projection' = projection
  BY DEF Write, Build, Mkstemp, EnterTry, WriteTemp, Fsync, OsReplace, Return,
       RaiseOutsideTry, Raise, Unlink, UnlinkFails, Kill
<1>1. PendingText'
  <2> SUFFICES ASSUME NEW v \in Writers, pc'[v] \in InWrite
               PROVE  text'[v] \in Abstract!NewVersions(v)'
    BY DEF PendingText
  <2>1. CASE Build(w) /\ v = w
    <3>1. text'[v] = TextOf(w)
      BY <2>1 DEF Build
    <3>2. TextOf(w) \in Abstract!NewVersions(w)
      BY DEF TextOf, Abstract!NewVersions, Published, Abstract!Prices, Prices,
                Replacement, Extension, csv_text, Whole, Abstract!Replacement,
                Abstract!Extension, Abstract!csv_text, Abstract!Whole
    <3> QED BY <1>0, <2>1, <3>1, <3>2, NewVersionsGrow
  <2>2. CASE ~(Build(w) /\ v = w)
    <3>1. pc[v] \in InWrite /\ text'[v] = text[v]
      BY <2>2 DEF Write, Build, Mkstemp, EnterTry, WriteTemp, Fsync, OsReplace, Return,
       RaiseOutsideTry, Raise, Unlink, UnlinkFails, Kill, InWrite, InTry
    <3> QED BY <1>0, <3>1, NewVersionsGrow DEF PendingText
  <2> QED BY <2>1, <2>2
<1>2. TempHoldsText'
  <2> SUFFICES ASSUME NEW v \in Writers
               PROVE  /\ pc'[v] \in {"written", "synced"} => tmp'[v].file = text'[v]
                      /\ pc'[v] = "synced" => tmp'[v].durable
    BY DEF TempHoldsText
  <2>1. CASE v # w
    <3>1. pc'[v] = pc[v] /\ tmp'[v] = tmp[v] /\ text'[v] = text[v]
      BY <2>1 DEF Write, Build, Mkstemp, EnterTry, WriteTemp, Fsync, OsReplace, Return,
       RaiseOutsideTry, Raise, Unlink, UnlinkFails, Kill
    <3> QED BY <3>1 DEF TempHoldsText
  <2>2. CASE v = w
    <3>1. CASE WriteTemp(w)
      BY <2>2, <3>1 DEF WriteTemp, Volatile
    <3>2. CASE Fsync(w)
      <4>1. tmp'[w] = [tmp[w] EXCEPT !.durable = TRUE] /\ text'[w] = text[w]
        BY <3>2 DEF Fsync
      <4>2. tmp[w].file = text[w]
        BY <3>2 DEF Fsync, TempHoldsText
      <4> QED BY <2>2, <4>1, <4>2 DEF Inode
    <3>3. CASE ~WriteTemp(w) /\ ~Fsync(w)
      <4>1. pc'[w] \notin {"written", "synced"}
        BY <3>3 DEF Write, Build, Mkstemp, EnterTry, OsReplace, Return,
                    RaiseOutsideTry, Raise, Unlink, UnlinkFails, Kill
      <4> QED BY <2>2, <4>1
    <3> QED BY <3>1, <3>2, <3>3
  <2> QED BY <2>1, <2>2
<1>3. /\ Published'
      /\ Abstract!Publish(w) \/ UNCHANGED Abstract!vars
  <2>1. CASE OsReplace(w)
    <3>1. target' = tmp[w] /\ disk' = disk /\ versions' = versions \cup {text[w]}
      BY <2>1 DEF OsReplace
    <3>2. tmp[w].file = text[w] /\ tmp[w].durable
      BY <2>1 DEF OsReplace, TempHoldsText
    <3>3. text[w] \in Abstract!NewVersions(w)
      BY <2>1 DEF OsReplace, PendingText, InWrite, InTry
    <3> QED BY <1>0, <3>1, <3>2, <3>3 DEF Published, Abstract!Publish
  <2>2. CASE ~OsReplace(w)
    <3>1. UNCHANGED <<target, disk, versions>>
      BY <2>2 DEF Write, Build, Mkstemp, EnterTry, WriteTemp, Fsync, Return,
                     RaiseOutsideTry, Raise, Unlink, UnlinkFails, Kill
    <3> QED BY <1>0, <3>1 DEF Published, Abstract!vars
  <2> QED BY <2>1, <2>2
<1>4. NobodySeeds'
  BY DEF NobodySeeds, InSeed, Write, Build, Mkstemp, EnterTry, WriteTemp, Fsync, OsReplace, Return,
       RaiseOutsideTry, Raise, Unlink, UnlinkFails, Kill
<1> QED BY <1>1, <1>2, <1>3, <1>4

\* Any step before fixtures are seeded.
LEMMA UnseededStep ==
    ASSUME TypeOK, IInv, [Next]_vars, NobodySeeded'
    PROVE  IInv' /\ [Abstract!Next]_(Abstract!vars)
<1> USE DEF IInv, setting, temp, file
<1>0. NobodySeeded /\ pc = [v \in Writers |-> pc[v]]
  BY SeededStays DEF TypeOK
<1>1. ASSUME NEW w \in Writers, Write(w)
      PROVE  IInv' /\ [Abstract!Next]_(Abstract!vars)
  BY <1>0, <1>1, WriteStep DEF Abstract!Next
<1>2. ASSUME NEW w \in Writers, Seed(w) PROVE FALSE
  <2>1. CASE SeedOpen(w)
    <3>1. pc'[w] = "truncated" /\ w \in Seeders
      BY <1>0, <2>1 DEF SeedOpen, Goto
    <3> QED BY <3>1 DEF NobodySeeded
  <2>2. CASE ~ SeedOpen(w)
    BY <1>2, <2>2 DEF Seed, SeedWrite, SeedReturn, SeedFail, NobodySeeds, InSeed
  <2> QED BY <2>1, <2>2
<1>3. CASE Commit
  <2>1. disk'.file = target.file /\ disk'.durable
    BY <1>3 DEF Commit, Published, Durable
  <2>2. Published'
    BY <1>3, <2>1 DEF Commit, Published
  <2>3. PendingText' /\ TempHoldsText' /\ NobodySeeds' /\ UNCHANGED Abstract!vars
    BY <1>0, <1>3 DEF Commit, PendingText, TempHoldsText, NobodySeeds, Abstract!vars,
                Abstract!NewVersions
  <2> QED BY <2>2, <2>3
<1>4. CASE PowerLoss
  <2>1. target' = Durable(disk.file) /\ disk' = target'
    BY <1>4 DEF PowerLoss, Survivors, Published
  <2>2. UNCHANGED <<projection, text, tmp, versions>>
    BY <1>4 DEF PowerLoss
  <2>3. Published' /\ Abstract!Revert
    BY <1>0, <2>1, <2>2 DEF Published, Durable, Abstract!Revert
  <2>4. \A w \in Writers : pc'[w] = pc[w] \/ pc'[w] = "killed"
    BY <1>4 DEF PowerLoss
  <2>5. PendingText' /\ TempHoldsText' /\ NobodySeeds'
    BY <2>2, <2>4 DEF PendingText, TempHoldsText, NobodySeeds, InWrite, InTry, InSeed,
                      Abstract!NewVersions
  <2> QED BY <1>0, <2>3, <2>5 DEF Abstract!Next
<1>5. CASE UNCHANGED vars
  BY <1>0, <1>5 DEF vars, PendingText, TempHoldsText, Published, NobodySeeds, Abstract!vars,
                    Abstract!NewVersions
<1> QED BY <1>1, <1>2, <1>3, <1>4, <1>5 DEF Next

\* The invariant holds until fixtures are seeded.
LEMMA AnyStep ==
    ASSUME TypeOK, NobodySeeded => IInv, [Next]_vars
    PROVE  /\ (NobodySeeded => IInv)'
           /\ [Abstract!Next]_(Abstract!vars)
<1>1. CASE NobodySeeded'
  <2>1. IInv
    BY <1>1, SeededStays
  <2> QED BY <1>1, <2>1, UnseededStep
<1>2. CASE ~ NobodySeeded'
  <2>1. projection' = projection
    BY DEF Next, vars, setting, temp, file, Commit, PowerLoss, Write, Build,
           Mkstemp, EnterTry, WriteTemp, Fsync, OsReplace, Return,
           RaiseOutsideTry, Raise, Unlink, UnlinkFails, Kill,
           Seed, SeedOpen, SeedWrite, SeedReturn, SeedFail
  <2>2. (~ NobodySeeded)' = TRUE
    BY <1>2
  <2> QED BY <1>2, <2>1, <2>2 DEF Abstract!Next, Abstract!Seed
<1> QED BY <1>1, <1>2

\* Until fixtures are seeded, readers see a complete published text in every
\* state: any number of overlapping callers, exceptions, kills and power losses.
THEOREM WholeVersion == Spec => []ReadersSeeWholeVersion
<1>1. TypeOK /\ (NobodySeeded => IInv) /\ [Next]_vars => (NobodySeeded => IInv)'
  BY AnyStep
<1>2. (NobodySeeded => IInv) => ReadersSeeWholeVersion
  BY DEF IInv, Published, ReadersSeeWholeVersion
<1> QED BY <1>1, <1>2, InitIInv, TypeCorrect, PTL DEF Spec

\* The calls of fsutil implement a file that only ever moves between complete
\* published versions: each step publishes one, is a power loss that brings an
\* earlier one back, or changes nothing a reader sees, until fixtures are seeded.
THEOREM Implements == Spec => ImplementsVersionedFile
<1>1. Init => Abstract!Init
  <2> SUFFICES ASSUME Init PROVE Abstract!Init
    OBVIOUS
  <2>1. \A w \in Seeders : pc[w] = "idle"
    BY SeedersAssumption DEF Init
  <2>2. (~ NobodySeeded) = FALSE
    BY <2>1 DEF NobodySeeded
  <2>3. projection \in {"stock_prices.csv", "stock_history.csv"}
    BY DEF Init, Prices, History
  <2>4. target.file \in Before /\ versions = {target.file}
    BY DEF Init, Durable
  <2> QED BY <2>2, <2>3, <2>4 DEF Abstract!Init, Before, Abstract!Before, Abstract!Prices,
            Abstract!History, Empty, Abstract!Empty, Whole, Abstract!Whole
<1>2. TypeOK /\ (NobodySeeded => IInv) /\ [Next]_vars
        => (NobodySeeded => IInv)' /\ [Abstract!Next]_(Abstract!vars)
  BY AnyStep
<1> QED BY <1>1, <1>2, InitIInv, TypeCorrect, PTL
        DEF Spec, ImplementsVersionedFile, Abstract!Spec

-----------------------------------------------------------------------------
(* One header                                                              *)

\* The header goes before the first line of an empty text, and is not repeated.
LEMMA OneHeader ==
    ASSUME NEW w \in Writers, NEW v \in File, WellFormed(v)
    PROVE  WellFormed(Extension(v, w)) /\ WellFormed(Replacement(w))
<1>1. Header # w
  BY HeaderAssumption
<1>2. WellFormed(Replacement(w))
  BY <1>1 DEF Replacement, csv_text, WellFormed, Whole
<1>3. v.lines \in Seq(Line)
  BY DEF File
<1>4. CASE v.lines = <<>>
  <2>1. Extension(v, w) = Replacement(w)
    BY <1>4 DEF Extension, Replacement, csv_text
  <2> QED BY <1>2, <2>1
<1>5. CASE v.lines # <<>>
  <2> DEFINE n == Len(v.lines)
             lines == v.lines \o <<Whole(w)>>
  <2>1. Extension(v, w) = [lines |-> lines, ended |-> TRUE]
    BY <1>5 DEF Extension, csv_text
  <2>2. n \in Nat /\ n >= 1
    BY <1>3, <1>5
  <2>3. DOMAIN lines = 1..(n + 1)
    BY <1>3
  <2>4. ASSUME NEW i \in 1..(n + 1)
        PROVE  lines[i].whole /\ (lines[i].of = Header <=> i = 1)
    <3>1. CASE i \in 1..n
      <4>1. lines[i] = v.lines[i] /\ i \in DOMAIN v.lines
        BY <1>3, <3>1
      <4> QED BY <4>1 DEF WellFormed
    <3>2. CASE i = n + 1
      <4>1. lines[i] = Whole(w)
        BY <1>3, <3>2
      <4> QED BY <1>1, <2>2, <3>2, <4>1 DEF Whole
    <3> QED BY <2>2, <3>1, <3>2
  <2> HIDE DEF lines
  <2> QED BY <1>2, <2>1, <2>3, <2>4 DEF WellFormed
<1> QED BY <1>4, <1>5

Headed == \A v \in versions : WellFormed(v)

\* However many callers append, and in whatever overlap, the projection has one
\* header and no row runs into another until fixtures are seeded: every published
\* text is so, because it extends one that is.
THEOREM HeaderOnceAlways == Spec => []HeaderOnce
<1>1. Init => Headed
  <2> SUFFICES ASSUME Init, NEW v \in versions PROVE WellFormed(v)
    BY DEF Headed
  <2>1. v = Empty \/ v = [lines |-> <<Whole(Header), Whole(Old)>>, ended |-> TRUE]
    BY DEF Init, Before
  <2> QED BY <2>1, HeaderAssumption DEF WellFormed, Empty, Whole
<1>2. TypeOK /\ (NobodySeeded => IInv /\ Headed) /\ [Next]_vars
        => (NobodySeeded => IInv /\ Headed)'
  <2> SUFFICES ASSUME TypeOK, NobodySeeded => IInv /\ Headed, [Next]_vars, NobodySeeded'
               PROVE  IInv' /\ Headed'
    OBVIOUS
  <2>0. IInv /\ Headed /\ (~ NobodySeeded)' # TRUE
    BY SeededStays
  <2>1. IInv' /\ [Abstract!Next]_(Abstract!vars)
    BY <2>0, UnseededStep
  <2>2. CASE Abstract!Revert \/ UNCHANGED Abstract!vars
    BY <2>0, <2>1, <2>2 DEF Headed, WellFormed, Abstract!Revert, Abstract!vars
  <2>3. ASSUME NEW w \in Writers, Abstract!Publish(w) PROVE Headed'
    <3>1. PICK f \in Abstract!NewVersions(w) : versions' = versions \cup {f}
      BY <2>3 DEF Abstract!Publish
    <3>2. f = Replacement(w) \/ \E v \in versions : f = Extension(v, w)
      BY <3>1 DEF Abstract!NewVersions, Replacement, Abstract!Replacement, Extension,
                  Abstract!Extension, csv_text, Abstract!csv_text, Whole, Abstract!Whole
    <3>3. \A v \in versions : v \in File /\ WellFormed(v)
      BY <2>0 DEF TypeOK, Headed
    <3>4. Empty \in File /\ WellFormed(Empty)
      BY TextTypes DEF WellFormed, Empty
    <3>5. WellFormed(f)
      BY <3>2, <3>3, <3>4, OneHeader
    <3> QED BY <3>1, <3>3, <3>5 DEF Headed, WellFormed
  <2> QED BY <2>0, <2>1, <2>2, <2>3 DEF Abstract!Next, Abstract!Seed
<1>3. (NobodySeeded => IInv /\ Headed) => HeaderOnce
  BY DEF IInv, Published, Headed, HeaderOnce
<1> QED BY <1>1, <1>2, <1>3, InitIInv, TypeCorrect, PTL DEF Spec

-----------------------------------------------------------------------------
(* Appends made on their own                                               *)

LEMMA ExtensionKeepsRows ==
    ASSUME NEW w \in Writers, NEW f \in File
    PROVE  RowsIn(f) \subseteq RowsIn(Extension(f, w))
<1> DEFINE more == csv_text(w, f.lines = <<>>)
<1>1. f.lines \in Seq(Line) /\ more \in Seq(Line)
  <2>1. \A x \in Writers \cup {Header} : Whole(x) \in Line
    BY DEF Whole, Line
  <2> QED BY <2>1 DEF File, csv_text
<1>2. Extension(f, w).lines = f.lines \o more
  BY DEF Extension
<1> HIDE DEF more
<1>3. \A i \in DOMAIN f.lines : i \in DOMAIN (f.lines \o more) /\ (f.lines \o more)[i] = f.lines[i]
  BY <1>1
<1> QED BY <1>2, <1>3 DEF RowsIn

\* No other call runs beside one made alone, and what that one is about to publish
\* extends what readers see.
Apart == \A v, w \in Writers : v \in alone /\ Active(v) /\ Active(w) => v = w
Current(w) == pc[w] \in InWrite \ {"replaced", "handling"} /\ projection = History
                 => text[w] = Extension(target.file, w)
Written(w) == pc[w] \in {"written", "synced"} => tmp[w].file = text[w]
Serial == Apart /\ \A w \in Writers : Written(w) /\ (w \in alone => Current(w))

LEMMA SerialStep ==
    ASSUME TypeOK, Serial, [Next]_vars
    PROVE  Serial'
<1> USE DEF Goto, InWrite, InTry, InSeed, Over, setting, temp, file
<1>0. /\ pc = [w \in Writers |-> pc[w]] /\ text = [w \in Writers |-> text[w]]
      /\ tmp = [w \in Writers |-> tmp[w]]
      /\ \A w \in Writers : tmp[w] = [file |-> tmp[w].file, durable |-> tmp[w].durable]
  BY DEF TypeOK, Inode
\* A call steps if it is running, or if it may start beside those that are.
<1>1. ASSUME NEW w \in Writers,
             Active(w) \/ \A v \in Writers : Active(v) => v \notin alone /\ w \notin alone,
             \A v \in Writers : v # w =>
                 pc'[v] = pc[v] /\ text'[v] = text[v] /\ tmp'[v] = tmp[v],
             alone' = alone, Written(w)', w \in alone => Current(w)'
      PROVE  Serial'
  <2>1. ASSUME NEW v \in Writers, v # w, v \in alone PROVE ~ Active(v)
    BY <1>1, <2>1 DEF Serial, Apart
  <2>2. \A v \in Writers : v # w => Active(v)' = Active(v)
    BY <1>1 DEF Active
  <2>3. Apart'
    <3> SUFFICES ASSUME NEW u \in Writers, NEW v \in Writers, u \in alone, u # v,
                        Active(u)', Active(v)'
                 PROVE  FALSE
      BY <1>1 DEF Apart
    <3>1. u = w
      BY <2>1, <2>2
    <3>2. Active(v) /\ v \notin alone
      BY <2>1, <2>2, <3>1
    <3>3. ~ Active(w)
      BY <3>1, <3>2 DEF Serial, Apart
    <3> QED BY <1>1, <3>1, <3>2, <3>3
  <2>4. \A v \in Writers : v # w => Written(v)'
    BY <1>1 DEF Serial, Written
  <2>5. ASSUME NEW v \in Writers, v # w, v \in alone PROVE Current(v)'
    <3>1. pc'[v] \notin InWrite
      BY <2>1, <2>2, <2>5 DEF Active
    <3> QED BY <3>1 DEF Current
  <2> QED BY <1>1, <2>3, <2>4, <2>5 DEF Serial
<1>2. ASSUME NEW w \in Writers, Write(w) PROVE Serial'
  <2>1. Active(w) \/ \A v \in Writers : Active(v) => v \notin alone /\ w \notin alone
    BY <1>2 DEF Write, Build, Mkstemp, EnterTry, WriteTemp, Fsync, OsReplace, Return,
       RaiseOutsideTry, Raise, Unlink, UnlinkFails, Kill,
                MayStart, Active
  <2>2. /\ alone' = alone
        /\ \A v \in Writers : v # w =>
             pc'[v] = pc[v] /\ text'[v] = text[v] /\ tmp'[v] = tmp[v]
    BY <1>0, <1>2 DEF Write, Build, Mkstemp, EnterTry, WriteTemp, Fsync, OsReplace, Return,
       RaiseOutsideTry, Raise, Unlink, UnlinkFails, Kill
  <2>3. Written(w) /\ (w \in alone => Current(w))
    BY DEF Serial
  <2>4. CASE Build(w)
    <3>1. pc'[w] = "built" /\ text'[w] = TextOf(w) /\ UNCHANGED <<target, projection>>
      BY <1>0, <2>4 DEF Build
    <3>2. Current(w)' /\ Written(w)'
      BY <3>1 DEF TextOf, Current, Written, Prices, History
    <3> QED BY <1>1, <2>1, <2>2, <3>2
  <2>5. CASE Mkstemp(w) \/ EnterTry(w) \/ Fsync(w)
    <3>1. Written(w)' /\ (w \in alone => Current(w)')
      BY <1>0, <2>3, <2>5 DEF Mkstemp, EnterTry, Fsync, Current, Written
    <3> QED BY <1>1, <2>1, <2>2, <3>1
  <2>6. CASE WriteTemp(w)
    <3>1. Written(w)' /\ (w \in alone => Current(w)')
      BY <1>0, <2>3, <2>6 DEF WriteTemp, Volatile, Current, Written
    <3> QED BY <1>1, <2>1, <2>2, <3>1
  <2>7. CASE \/ OsReplace(w) \/ Return(w) \/ RaiseOutsideTry(w) \/ Raise(w)
             \/ Unlink(w) \/ UnlinkFails(w) \/ Kill(w)
    <3>1. Current(w)' /\ Written(w)'
      BY <1>0, <2>7 DEF OsReplace, Return, RaiseOutsideTry, Raise, Unlink, UnlinkFails,
                        Kill, Current, Written
    <3> QED BY <1>1, <2>1, <2>2, <3>1
  <2> QED BY <1>2, <2>4, <2>5, <2>6, <2>7 DEF Write
<1>3. ASSUME NEW w \in Writers, Seed(w) PROVE Serial'
  <2>1. Active(w) \/ \A v \in Writers : Active(v) => v \notin alone /\ w \notin alone
    BY <1>3 DEF Seed, SeedOpen, SeedWrite, SeedReturn, SeedFail, MayStart, Active
  <2>2. /\ alone' = alone
        /\ \A v \in Writers : v # w =>
             pc'[v] = pc[v] /\ text'[v] = text[v] /\ tmp'[v] = tmp[v]
    BY <1>0, <1>3 DEF Seed, SeedOpen, SeedWrite, SeedReturn, SeedFail
  <2>3. pc'[w] \in {"truncated", "seeded", "returned", "raised", "killed"}
    BY <1>0, <1>3 DEF Seed, SeedOpen, SeedWrite, SeedReturn, SeedFail
  <2>4. Current(w)' /\ Written(w)'
    BY <2>3 DEF Current, Written
  <2> QED BY <1>1, <2>1, <2>2, <2>4
<1>4. CASE Commit \/ UNCHANGED vars
  BY <1>4 DEF Commit, vars, Serial, Apart, Current, Written, Active
<1>5. CASE PowerLoss
  <2>1. \A w \in Writers : ~ Active(w)' /\ pc'[w] \notin InWrite
    BY <1>5 DEF PowerLoss, Active
  <2> QED BY <2>1 DEF Serial, Apart, Current, Written
<1> QED BY <1>2, <1>3, <1>4, <1>5 DEF Next

\* An append made with no other call running loses no row a reader could see,
\* whatever overlapped, was interrupted, killed, powered off or seeded before it.
THEOREM AppendKeepsRowsAlways == Spec => AppendKeepsRows
<1>1. Init => Serial
  BY DEF Init, Serial, Apart, Current, Written, Active, InWrite, InTry, InSeed
<1>2. TypeOK /\ Serial /\ [Next]_vars => Serial'
  BY SerialStep
<1>3. TypeOK /\ Serial /\ [Next]_vars =>
        [\A w \in alone : projection = History /\ pc[w] = "synced" /\ pc'[w] = "replaced"
            => RowsIn(target.file) \subseteq RowsIn(target'.file)]_vars
  <2> SUFFICES ASSUME TypeOK, Serial, Next, NEW w \in alone,
                      projection = History, pc[w] = "synced", pc'[w] = "replaced"
               PROVE  RowsIn(target.file) \subseteq RowsIn(target'.file)
    OBVIOUS
  <2> USE DEF setting, temp, file
  <2>0. w \in Writers
    BY DEF TypeOK
  <2>1. OsReplace(w)
    <3>1. pc = [v \in Writers |-> pc[v]]
      BY DEF TypeOK
    <3>2. ~ Commit /\ ~ PowerLoss
      BY <2>0, <3>1 DEF Commit, PowerLoss
    <3>3. PICK v \in Writers : Write(v) \/ Seed(v)
      BY <3>2 DEF Next
    <3>4. OsReplace(v)
      BY <2>0, <3>1, <3>3 DEF Write, Seed, Build, Mkstemp, EnterTry, WriteTemp, Fsync, Return,
                     RaiseOutsideTry, Raise, Unlink, UnlinkFails, Kill,
                        SeedOpen, SeedWrite, SeedReturn, SeedFail, Goto
    <3>5. v = w
      BY <2>0, <3>1, <3>4 DEF OsReplace, Goto
    <3> QED BY <3>4, <3>5
  <2>2. target'.file = Extension(target.file, w)
    BY <2>0, <2>1 DEF OsReplace, Serial, Current, Written, InWrite, InTry
  <2>3. target.file \in File
    BY DEF TypeOK, Inode
  <2> QED BY <2>0, <2>2, <2>3, ExtensionKeepsRows
<1> QED BY <1>1, <1>2, <1>3, TypeCorrect, PTL DEF Spec, AppendKeepsRows
=============================================================================
