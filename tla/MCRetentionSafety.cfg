\* Two sweeps of a product with an age limit, over a half-deleted run.
CONSTANTS
    Sources = {1}
    Runs <- OneRun
    RunOf <- InOneRun
    FieldOf <- FieldNames
    Required = {"rain"}
    Expected <- AllOfThem
    Leftover <- Interrupted
    MaxKey = 2
    Limit = 2
    DownloadRetries = 1
    CogRetries = 1
    Invalid = {}
    Unfit = {}
    MaxFaults = 1
    RetainForever = FALSE
    MaxSweeps = 2
SPECIFICATION RetentionSpec
INVARIANTS
    RetentionTypeOK
    DeletedSourceHasNoFile
