\* One behaviour is that of one feed; each feed has its own bounds.
CONSTANTS
    Cycles = {1, 2}
    Hours = {0}
    Collectors = {"dag", "backfill"}
    Dag = "dag"
    CyclesPerRun = 2
    MayBeUnfit <- LastHour
    MaxGfsFaults = 1
    Days = {1, 2}
    Versions = {1, 2, 3}
    SizeOf <- Sizes
    Malformed = {2}
    DaysPerRun = 1
    IngestRetries = 1
    MaxHotspotFaults = 1
    DangerDates = {1, 2}
    Grids = 1
    Analyses = {1, 2}
    GridCollectors = {"dag", "backfill"}
    DangerDag = "dag"
    DatesPerRun = 1
    MaxBackfills = 1
    MaxDangerFaults = 1
    Detections = {1, 2, 3, 4}
    Places = {0, 1, 3}
    Times = {0, 1, 2}
    FuelChoices <- OneOddFuel
    Reach = 1
    SpreadRate = 1
    MaxGap = 1
    Sites = {1, 2}
    RegionOf <- OneRegion
    MaxIssue = 3
    Supplies <- TwoSupplies
    Unavailable <- LastOfTwo
    Garbled <- SecondOfOne
    MaxBulletinFaults = 1
    Products = {1, 2}
    ValidTimes = {1, 2}
    Images = {1, 2}
    FramesPerProduct = 1
    Reserve = 5
    Budget = 7
    MaxImageryFaults = 2
    Scripts = {"airnow", "aqs", "tropomi", "mcd64a1", "burned", "firem3", "naps", "ads", "gfas", "gdex"}
    Objects = {1, 2}
    Revisions = {1, 2}
    MaxArchiveFaults = 1
SPECIFICATION FeedsSpec
INVARIANTS
    FeedsTypeOK
    PublishedCyclesAreWhole
    LatestIsNewest
    PointerNotAhead
    EventsAreComponents
    NearestAreNearest
    ArchiveInBudget
    RecordedIsWhole
PROPERTIES
    RevisionArrives
    TripletSettles
    BulletinKept
    ChangesNeverBack
    CityCatchesUp
CHECK_DEADLOCK FALSE
