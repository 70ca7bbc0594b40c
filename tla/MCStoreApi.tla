----------------------------- MODULE MCStoreApi -----------------------------
(* TLC instances of StoreApi: the configurations the tests use.            *)
EXTENDS StoreApi, TLC

Config(mode, fallback, silverMode, allowed) ==
    [mode |-> mode, fallback |-> fallback, silver |-> silverMode, refresh |-> allowed]

DefaultMode == Config("parquet", "error", "bronze", TRUE)
SilverMode == Config("parquet", "error", "silver", FALSE)
IcebergMode == Config("iceberg", "error", "bronze", FALSE)
FallbackMode == Config("iceberg", "parquet", "bronze", FALSE)

AllModes == {DefaultMode, SilverMode, IcebergMode, FallbackMode}
SilverOnly == {SilverMode}

RunsSymmetry == Permutations(Runs)
=============================================================================
