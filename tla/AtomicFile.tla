----------------------------- MODULE AtomicFile -----------------------------
(***************************************************************************)
(* src/book_stock/fsutil.py: atomic_write_csv and atomic_append_csv, step  *)
(* by step, on one CSV projection, with callers that may overlap (two      *)
(* ingest commands, or a command and the scheduler's StockPriceScraper),   *)
(* Ctrl-C, kill -9 and power loss; and store.seed_fixtures, which writes   *)
(* the same file in place.                                                 *)
(***************************************************************************)
EXTENDS CsvText

CONSTANTS Seeders,       \* the callers that run seed_fixtures
          MaxPowerLoss   \* bound: power losses in one behaviour

ASSUME SeedersAssumption == Seeders \subseteq Writers
ASSUME MaxPowerLossAssumption == MaxPowerLoss \in Nat

VARIABLES
    projection,  \* stock_prices.csv (replaced) or stock_history.csv (appended to)
    alone,       \* the calls made while no other one is running
    pc,          \* where each call is
    text,        \* the text each call is to write (existing + body)
    there,       \* the calls whose temporary file is in the directory
    missed,      \* history variable: the calls whose exception came before the
                 \* handler could catch it, or whose handler did not finish
    tmp,         \* that temporary file
    opened,      \* the seeders that have open the very file readers see
    target,      \* the projection as readers see it
    disk,        \* the projection a power loss would leave
    versions,    \* history variable: the complete texts published so far
    losses       \* power losses so far

setting == <<projection, alone>>
temp == <<there, missed, tmp>>
file == <<opened, target, disk, versions>>
vars == <<setting, pc, text, temp, file, losses>>

Prices == "stock_prices.csv"
History == "stock_history.csv"

\* A file whose contents are "durable" survives a power loss whole.
Inode == [file : File, durable : BOOLEAN]
Durable(f) == [file |-> f, durable |-> TRUE]
Volatile(f) == [file |-> f, durable |-> FALSE]

InTry == {"trying", "written", "synced", "replaced"}
InWrite == {"built", "made", "handling"} \cup InTry
InSeed == {"truncated", "seeded"}
Over == {"returned", "raised", "killed"}

TypeOK ==
    /\ projection \in {Prices, History}
    /\ alone \subseteq Writers
    /\ pc \in [Writers -> {"idle"} \cup InWrite \cup InSeed \cup Over]
    /\ text \in [Writers -> File]
    /\ there \subseteq Writers
    /\ missed \subseteq Writers
    /\ tmp \in [Writers -> Inode]
    /\ opened \subseteq Seeders
    /\ target \in Inode
    /\ disk \in Inode
    /\ versions \subseteq File
    /\ losses \in 0..MaxPowerLoss

\* No file yet, or one that an earlier run wrote and that reached the disk.
Before == { Empty, [lines |-> <<Whole(Header), Whole(Old)>>, ended |-> TRUE] }

Init ==
    /\ projection \in {Prices, History}
    /\ alone \in SUBSET Writers
    /\ pc = [w \in Writers |-> "idle"]
    /\ text = [w \in Writers |-> Empty]
    /\ there = {}
    /\ missed = {}
    /\ opened = {}
    /\ tmp = [w \in Writers |-> Volatile(Empty)]
    /\ \E f \in Before : target = Durable(f) /\ disk = Durable(f) /\ versions = {f}
    /\ losses = 0

Active(w) == pc[w] \in InWrite \cup InSeed
MayStart(w) ==
    pc[w] = "idle" /\ \A v \in Writers : Active(v) => v \notin alone /\ w \notin alone

Goto(w, step) == pc' = [pc EXCEPT ![w] = step]

-----------------------------------------------------------------------------
(* atomic_write_csv and atomic_append_csv, up to atomic_write_text         *)

\* Faulty variants: the old text not read; the file's name in place of the rows.
TextOfNothingRead(w) ==
    IF projection = Prices THEN Replacement(w) ELSE Extension(Empty, w)
TextOfFileName(w) ==
    [lines |-> <<Whole(Header), Whole(projection)>>, ended |-> TRUE]

\* The append reads the file here, the replacement reads nothing.
TextOf(w) ==
    IF projection = Prices THEN Replacement(w) ELSE Extension(target.file, w)

Build(w) ==
    /\ w \notin Seeders /\ MayStart(w)
    /\ text' = [text EXCEPT ![w] = TextOf(w)]
    /\ Goto(w, "built")
    /\ UNCHANGED <<setting, temp, file, losses>>

-----------------------------------------------------------------------------
(* atomic_write_text                                                       *)

\* The file is in the directory, and no handler covers it yet.
Mkstemp(w) ==
    /\ pc[w] = "built"
    /\ there' = there \cup {w}
    /\ tmp' = [tmp EXCEPT ![w] = Volatile(Empty)]
    /\ Goto(w, "made")
    /\ UNCHANGED <<setting, text, missed, file, losses>>

EnterTry(w) ==
    /\ pc[w] = "made"
    /\ Goto(w, "trying")
    /\ UNCHANGED <<setting, text, temp, file, losses>>

WriteTemp(w) ==
    /\ pc[w] = "trying"
    /\ tmp' = [tmp EXCEPT ![w] = Volatile(text[w])]
    /\ Goto(w, "written")
    /\ UNCHANGED <<setting, text, there, missed, file, losses>>

\* Faulty variant: nothing reaches the disk before the rename.
FsyncForgotten(w) ==
    /\ pc[w] = "written"
    /\ Goto(w, "synced")
    /\ UNCHANGED <<setting, text, temp, file, losses>>

Fsync(w) ==
    /\ pc[w] = "written"
    /\ tmp' = [tmp EXCEPT ![w].durable = TRUE]
    /\ Goto(w, "synced")
    /\ UNCHANGED <<setting, text, there, missed, file, losses>>

\* Atomic for readers; the directory entry is not synced, so a power loss may
\* still bring the old file back.  A seeder keeps the file that was there.
OsReplace(w) ==
    /\ pc[w] = "synced"
    /\ target' = tmp[w]
    /\ there' = there \ {w}
    /\ versions' = versions \cup {text[w]}
    /\ opened' = {}
    /\ Goto(w, "replaced")
    /\ UNCHANGED <<setting, text, missed, tmp, disk, losses>>

Return(w) ==
    /\ pc[w] = "replaced"
    /\ Goto(w, "returned")
    /\ UNCHANGED <<setting, text, temp, file, losses>>

\* An exception that no handler catches: before the try, or after it.
RaiseOutsideTry(w) ==
    /\ pc[w] \in {"built", "made", "replaced"}
    /\ missed' = IF pc[w] = "made" THEN missed \cup {w} ELSE missed
    /\ Goto(w, "raised")
    /\ UNCHANGED <<setting, text, there, tmp, file, losses>>

\* An OSError or a KeyboardInterrupt anywhere in the try, even after the replace.
Raise(w) ==
    /\ pc[w] \in InTry
    /\ Goto(w, "handling")
    /\ UNCHANGED <<setting, text, temp, file, losses>>

\* Faulty variant: the handler leaves the temporary file.
ReraiseOnly(w) ==
    /\ pc[w] = "handling"
    /\ Goto(w, "raised")
    /\ UNCHANGED <<setting, text, temp, file, losses>>

\* The temporary file, if it is still there, is unlinked; the exception goes on.
Unlink(w) ==
    /\ pc[w] = "handling"
    /\ there' = there \ {w}
    /\ Goto(w, "raised")
    /\ UNCHANGED <<setting, text, missed, tmp, file, losses>>

\* A second Ctrl-C, or an OSError other than FileNotFoundError.
UnlinkFails(w) ==
    /\ pc[w] = "handling"
    /\ missed' = missed \cup {w}
    /\ Goto(w, "raised")
    /\ UNCHANGED <<setting, text, there, tmp, file, losses>>

-----------------------------------------------------------------------------
(* store.seed_fixtures: Path.write_text opens and truncates the projection, *)
(* writes to the file it opened, and syncs nothing.  If the projection is  *)
(* replaced in between, no reader sees what it writes.                     *)

SeedOpen(w) ==
    /\ w \in Seeders /\ MayStart(w)
    /\ target' = Volatile(Empty)
    /\ opened' = opened \cup {w}
    /\ Goto(w, "truncated")
    /\ UNCHANGED <<setting, text, temp, disk, versions, losses>>

SeedWrite(w) ==
    /\ pc[w] = "truncated"
    /\ IF w \in opened
       THEN /\ target' = Volatile(Replacement(w))
            /\ versions' = versions \cup {Replacement(w)}
       ELSE UNCHANGED <<target, versions>>
    /\ opened' = opened \ {w}
    /\ Goto(w, "seeded")
    /\ UNCHANGED <<setting, text, temp, disk, losses>>

SeedReturn(w) ==
    /\ pc[w] = "seeded"
    /\ Goto(w, "returned")
    /\ UNCHANGED <<setting, text, temp, file, losses>>

\* Interrupted, killed or out of space with part of the text written.
SeedFail(w) ==
    /\ pc[w] = "truncated"
    /\ IF w \in opened
       THEN \E f \in Prefixes(Replacement(w)) : target' = Volatile(f)
       ELSE UNCHANGED target
    /\ opened' = opened \ {w}
    /\ \E end \in {"raised", "killed"} : Goto(w, end)
    /\ UNCHANGED <<setting, text, temp, disk, versions, losses>>

-----------------------------------------------------------------------------
(* The operating system                                                    *)

\* kill -9: no handler runs, and a temporary file stays in the directory.
Kill(w) ==
    /\ pc[w] \in InWrite
    /\ Goto(w, "killed")
    /\ UNCHANGED <<setting, text, temp, file, losses>>

\* The directory entry reaches the disk, with or without unsynced contents.
Commit ==
    /\ disk' \in {target, Durable(target.file)}
    /\ UNCHANGED <<setting, pc, text, temp, opened, target, versions, losses>>

Survivors(i) == IF i.durable THEN {i.file} ELSE Prefixes(i.file)

PowerLoss ==
    /\ losses < MaxPowerLoss
    /\ losses' = losses + 1
    /\ \E f \in Survivors(disk) : target' = Durable(f) /\ disk' = Durable(f)
    /\ pc' = [w \in Writers |-> IF Active(w) THEN "killed" ELSE pc[w]]
    /\ opened' = {}
    /\ UNCHANGED <<setting, text, temp, versions>>

-----------------------------------------------------------------------------
Write(w) == \/ Build(w) \/ Mkstemp(w) \/ EnterTry(w) \/ WriteTemp(w)
            \/ Fsync(w) \/ OsReplace(w) \/ Return(w) \/ RaiseOutsideTry(w)
            \/ Raise(w) \/ Unlink(w) \/ UnlinkFails(w) \/ Kill(w)

Seed(w) == SeedOpen(w) \/ SeedWrite(w) \/ SeedReturn(w) \/ SeedFail(w)

Next == \/ Commit \/ PowerLoss
        \/ \E w \in Writers : Write(w) \/ Seed(w)

Spec == Init /\ [][Next]_vars

-----------------------------------------------------------------------------
(* Properties                                                              *)

NobodySeeded == \A w \in Seeders : pc[w] = "idle"

\* fsutil.py:3, "A crash or Ctrl-C mid-write must never leave a truncated
\* projection behind": whatever is interrupted, killed or powered off, and
\* however calls overlap, a reader of the projection (load_csv_projection,
\* load_previous_prices, the next append) sees a complete published text, until
\* fixtures are seeded.
ReadersSeeWholeVersion == NobodySeeded => target.file \in versions

\* README.md:176, "CSV projections are written atomically (temp file +
\* `os.replace`)": the same without the proviso, which seed_fixtures needs.
AlwaysWhole == target.file \in versions

WellFormed(f) ==
    /\ f.ended
    /\ \A i \in DOMAIN f.lines : f.lines[i].whole /\ (f.lines[i].of = Header <=> i = 1)

\* fsutil.py:65, "header once": however many callers append, and in whatever
\* overlap, the projection is empty or starts with its only header line, and
\* no row runs into another one, until fixtures are seeded.
HeaderOnce == NobodySeeded => WellFormed(target.file)

\* fsutil.py:28: a call that is over has left no temporary file in the data
\* directory, wherever its exception struck, unless it was killed or powered
\* off, or raised past the handler (interrupted after mkstemp and before the
\* try) or out of it (the unlink failed or was interrupted).
NoTempLeftBehind ==
    \A w \in there : \/ Active(w)
                     \/ pc[w] = "killed"
                     \/ pc[w] = "raised" /\ w \in missed

\* fsutil.py:65, "Append rows": when an append made with no other call running
\* replaces the history, every row a reader could see before is still there
\* after, whatever overlapped, was torn or was interrupted earlier.
AppendKeepsRows ==
    [][\A w \in alone :
         projection = History /\ pc[w] = "synced" /\ pc'[w] = "replaced"
            => RowsIn(target.file) \subseteq RowsIn(target'.file)]_vars

\* fsutil.py:67: the file is always either the old or the new version, as
\* VersionedFile says it, until fixtures are seeded.
Abstract == INSTANCE VersionedFile WITH text <- target.file, seeded <- ~ NobodySeeded
ImplementsVersionedFile == Abstract!Spec
=============================================================================
