------------------------------- MODULE MCChart -------------------------------
(* TLC instance of Chart: floats of ordinary, least and greatest size.     *)
EXTENDS Chart, Integers

SomeExponents == {-MaxExp, 0, 1, MaxExp}
=============================================================================
