\* seed_fixtures beside an ingest: the projection is torn.
SPECIFICATION Spec
CONSTANTS
    Header = header
    Old = old
    Writers = {a, seed}
    Seeders = {seed}
    MaxPowerLoss = 0
INVARIANT AlwaysWhole
CHECK_DEADLOCK FALSE
