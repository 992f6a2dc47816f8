\* A half-deleted run of a product that is kept for ever, and a sweep.
CONSTANTS
    Sources = {1}
    Runs <- OneRun
    RunOf <- InOneRun
    FieldOf <- FieldNames
    Required = {"rain"}
    Expected <- AllOfThem
    Leftover <- Interrupted
    MaxKey = 1
    Limit = 2
    DownloadRetries = 1
    CogRetries = 1
    Invalid = {}
    Unfit = {}
    MaxFaults = 0
    RetainForever = TRUE
    MaxSweeps = 1
SPECIFICATION RetentionSpec
PROPERTIES
    FailedDeletionStaysPending
