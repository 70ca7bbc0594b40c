\* A client, one symbol, two ingest runs, every read mode.
SPECIFICATION ApiSpec
CONSTANTS
    Runs = {a, b}
    Nothing = nothing
    Clients = {c}
    Symbols = {x}
    MaxEvent = 2
    Settings <- AllModes
SYMMETRY RunsSymmetry
INVARIANTS ApiTypeOK AnswersAreFresh ReadsNeverGoBack
CHECK_DEADLOCK FALSE
