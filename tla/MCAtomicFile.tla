---------------------------- MODULE MCAtomicFile ----------------------------
(* TLC instances of AtomicFile: callers are interchangeable unless one of  *)
(* them seeds fixtures.                                                    *)
EXTENDS AtomicFile, TLC

CallersSymmetry == Permutations(Writers \ Seeders)
=============================================================================
