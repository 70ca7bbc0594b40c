--------------------------- MODULE MCLatestPrice ---------------------------
(* TLC instance of LatestPrice: live runs are interchangeable.             *)
EXTENDS LatestPrice, TLC

RunsSymmetry == Permutations(Runs \ LakeSeeders)
=============================================================================
