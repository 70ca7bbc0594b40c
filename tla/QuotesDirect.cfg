\* clean_quotes called with quotes that need not be priced.
SPECIFICATION Spec
CONSTANTS
    Spellings <- MCSpellings
    Upper <- MCUpper
    Blank = ""
    Entries = {"direct"}
    MaxQuotes = 3
INVARIANTS CsvAgreesWithBronze
CHECK_DEADLOCK FALSE
