\* The COG of the source of the new run never passes its checks.
CONSTANTS
    Sources = {1, 2}
    Runs <- TwoRuns
    RunOf <- InTwoRuns
    FieldOf <- OneField
    Required = {"rain"}
    Expected <- OneEach
    Leftover <- FreshRuns
    MaxKey = 1
    Limit = 2
    DownloadRetries = 0
    CogRetries = 0
    Invalid = {}
    Unfit = {2}
    MaxFaults = 0
SPECIFICATION FairSpec
PROPERTIES
    RunIsFinalized
