\* One source of one run; the conversion changes once.
CONSTANTS
    Sources = {1}
    Runs <- OneRun
    RunOf <- InOneRun
    FieldOf <- OneFieldEach
    Required = {"rain"}
    Expected <- OneExpected
    Leftover <- Fresh
    MaxKey = 2
    Limit = 1
    DownloadRetries = 0
    CogRetries = 0
    Invalid = {}
    Unfit = {}
    MaxFaults = 0
SPECIFICATION ServiceSpec
INVARIANTS
    TilesAreImmutable
CHECK_DEADLOCK FALSE
