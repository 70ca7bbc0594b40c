------------------------------ MODULE MCQuotes ------------------------------
(* TLC instances of Quotes: two symbols, one of them spelled in two ways,  *)
(* and a blank.                                                            *)
EXTENDS Quotes

MCSpellings == {"AAPL", "aapl", "MSFT", ""}
MCUpper == [s \in MCSpellings |-> IF s = "aapl" THEN "AAPL" ELSE s]
=============================================================================
