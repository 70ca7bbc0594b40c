\* Two overlapping runs both succeed; one's history rows are gone.
SPECIFICATION Spec
CONSTANTS
    Runs = {a, b}
    Seeders = {}
    Symbols = {x}
    Fixture = fixture
    Nothing = nothing
INVARIANT AppendedRowsStay
CHECK_DEADLOCK FALSE
