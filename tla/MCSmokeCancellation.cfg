\* A cancellation that arrives while the failure handler runs is lost,
\* although no worker dies and no commit goes unacknowledged.
CONSTANTS
    w1 = w1
    w2 = w2
    s1 = s1
    s2 = s2
    Runs <- MCRuns
    Submitters = {s1}
    Workers = {w1}
    Kind <- MCKind
    MaxQueued = 1
    MaxSwitches = 1
    ValidationEnabled = TRUE
    EventBatches = 1
    SpeciesCount = 1
    WorkerMayDie = FALSE
    CommitMayBeUnacked = FALSE
    NoRun = NoRun
    NoOne = NoOne
SPECIFICATION FairSpec
PROPERTIES
    CancellationCompletes
