\* Two live runs and a seeded batch of one symbol, while four seconds pass.
SPECIFICATION Spec
CONSTANTS
    Runs = {a, b, seed}
    LakeSeeders = {seed}
    Symbols = {x}
    MaxTime = 3
    NoTime = notime
    NoQuote = noquote
SYMMETRY RunsSymmetry
INVARIANTS TypeOK LatestIsMostRecent HistoryFollowsPrices
CHECK_DEADLOCK FALSE
