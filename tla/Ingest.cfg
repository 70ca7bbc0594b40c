\* Two live runs and a fixture run, each beside the others or on its own.
SPECIFICATION Spec
CONSTANTS
    Runs = {a, b, seed}
    Seeders = {seed}
    Symbols = {x, y}
    Fixture = fixture
    Nothing = nothing
SYMMETRY RunsSymmetry
INVARIANTS TypeOK LakeFirst NoCsvOnLakeFailure LineageNamesCommitted
    SuccessIsDurable NeverComparedWithItself ComparedWithLastCheck LoneRowsStay
PROPERTY ImplementsCommittedLake
CHECK_DEADLOCK FALSE
