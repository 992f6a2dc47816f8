\* One run with two required fields: retries, a fault, deliveries, withdrawals
\* and a change of the conversion.
CONSTANTS
    Sources = {1, 2}
    Runs <- OneRun
    RunOf <- InOneRun
    FieldOf <- TwoFields
    Required = {"rain", "wind"}
    Expected <- Both
    Leftover <- Fresh
    MaxKey = 2
    Limit = 2
    DownloadRetries = 1
    CogRetries = 0
    Invalid = {}
    Unfit = {}
    MaxFaults = 1
SPECIFICATION FairSpec
INVARIANTS
    TypeOK
    RunCompletion
    VisibleRunHasCore
    CompleteRunIsWhole
    DownloadedFileExists
    GapIsOld
PROPERTIES
    InboxKeptUntilRegistered
    ImplementsArchive
    
