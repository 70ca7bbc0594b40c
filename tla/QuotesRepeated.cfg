\* The scheduler asks for a symbol twice.
SPECIFICATION Spec
CONSTANTS
    Spellings <- MCSpellings
    Upper <- MCUpper
    Blank = ""
    Entries = {"scheduler"}
    MaxQuotes = 3
INVARIANTS RecordsReplayFromLanding
CHECK_DEADLOCK FALSE
