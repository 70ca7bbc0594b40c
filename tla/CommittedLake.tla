---------------------------- MODULE CommittedLake ----------------------------
(***************************************************************************)
(* What ingest commands promise to everything that reads the lake: batches *)
(* appear one at a time and whole, the history of a run after its prices,  *)
(* and stay; lake_lineage.json names a committed batch of each dataset.    *)
(* LakeIngest implements this, and StoreApi reads it.                      *)
(***************************************************************************)
CONSTANTS Runs,     \* the ingest commands
          Nothing   \* "no batch"

VARIABLES
    committed,  \* the <<run, dataset>> whose manifest is in the lake
    lineage     \* the batch lake_lineage.json names for each dataset

Prices == "stock_prices"
History == "stock_history"
Datasets == {Prices, History}

TypeOK ==
    /\ committed \subseteq Runs \X Datasets
    /\ lineage \in [Datasets -> Runs \cup {Nothing}]

Init ==
    /\ committed = {}
    /\ lineage = [d \in Datasets |-> Nothing]

\* run_live_ingest: the prices, then the history.
Commit(r, d) ==
    /\ d = History => <<r, Prices>> \in committed
    /\ committed' = committed \cup {<<r, d>>}
    /\ UNCHANGED lineage

NameInLineage(r, d) ==
    /\ <<r, d>> \in committed
    /\ lineage' = [lineage EXCEPT ![d] = r]
    /\ UNCHANGED committed

Next == \E r \in Runs, d \in Datasets : Commit(r, d) \/ NameInLineage(r, d)

Spec == Init /\ [][Next]_<<committed, lineage>>
=============================================================================
