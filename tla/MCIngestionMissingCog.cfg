\* A conversion that dies after it removed the COG it was to replace.
CONSTANTS
    Sources = {1}
    Runs <- OneRun
    RunOf <- AloneInRun
    FieldOf <- OnlyRain
    Required = {"rain"}
    Expected <- JustOne
    Leftover <- Fresh
    MaxKey = 2
    Limit = 1
    DownloadRetries = 0
    CogRetries = 0
    Invalid = {}
    Unfit = {}
    MaxFaults = 1
SPECIFICATION FairSpec
PROPERTIES
    MissingCogIsRebuilt
