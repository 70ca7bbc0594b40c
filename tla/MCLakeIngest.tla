---------------------------- MODULE MCLakeIngest ----------------------------
(* TLC instances of LakeIngest: the live runs are interchangeable, and so  *)
(* are the symbols.                                                        *)
EXTENDS LakeIngest, TLC

RunsSymmetry == Permutations(Runs \ Seeders) \cup Permutations(Symbols)
=============================================================================
