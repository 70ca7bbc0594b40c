\* Up to four symbols asked for through the command line or the scheduler, or
\* up to four quotes of any kind passed to clean_quotes.
SPECIFICATION Spec
CONSTANTS
    Spellings <- MCSpellings
    Upper <- MCUpper
    Blank = ""
    Entries = {"main", "scheduler", "direct"}
    MaxQuotes = 4
INVARIANTS TypeOK LiveCsvAgreesWithBronze FirstAcceptableKept EveryQuoteAccountedFor
    MainReplaysFromLanding
CHECK_DEADLOCK FALSE
