\* Every answer whose numbers have one of four orders of magnitude.
SPECIFICATION Spec
CONSTANTS
    MaxExp = 308
    Exponents <- SomeExponents
INVARIANTS TypeOK BronzeKeepsTheQuote PreviousCloseFound
CHECK_DEADLOCK FALSE
