\* Two runs, two workers, two submitters and every fault.
CONSTANTS
    w1 = w1
    w2 = w2
    s1 = s1
    s2 = s2
    Runs <- MCRuns
    Submitters <- MCSubmitters
    Workers <- MCWorkers
    Kind <- MCKind
    MaxQueued = 1
    MaxSwitches = 1
    ValidationEnabled = TRUE
    EventBatches = 1
    SpeciesCount = 1
    WorkerMayDie = TRUE
    CommitMayBeUnacked = TRUE
    NoRun = NoRun
    NoOne = NoOne
SPECIFICATION FairSpec
INVARIANTS
    TypeOK
    QueueBound
    OneWorkerPerRun
    VisibleIffComplete
    CancelledNeverVisible
    StoppedRunIsQuarantined
    PublishedFilesInPlace
PROPERTIES
    NoPhaseAfterCancellation
    AbandonedIsForever
    ImplementsLifecycle
    QueuedIsTaken
    ClaimedIsSettled
