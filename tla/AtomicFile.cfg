\* Two calls of fsutil and one of seed_fixtures, each made beside the others or
\* with no other running, Ctrl-C, kill -9 and a power loss.
SPECIFICATION Spec
CONSTANTS
    Header = header
    Old = old
    Writers = {a, b, seed}
    Seeders = {seed}
    MaxPowerLoss = 1
SYMMETRY CallersSymmetry
INVARIANTS TypeOK ReadersSeeWholeVersion HeaderOnce NoTempLeftBehind
PROPERTIES AppendKeepsRows ImplementsVersionedFile
CHECK_DEADLOCK FALSE
