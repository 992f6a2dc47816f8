\* The source of the old run is never valid.
CONSTANTS
    Sources = {1, 2}
    Runs <- TwoRuns
    RunOf <- InTwoRuns
    FieldOf <- OneField
    Required = {"rain"}
    Expected <- OneEach
    Leftover <- FreshRuns
    MaxKey = 1
    Limit = 2
    DownloadRetries = 0
    CogRetries = 0
    Invalid = {1}
    Unfit = {}
    MaxFaults = 0
SPECIFICATION FairSpec
PROPERTIES
    FreshDataArrives
