\* One layer is added and one removed again.
CONSTANTS
    FrameCount = 3
    Lookahead = 1
    MaxLayerId = 2
    MaxStack = 2
    MaxQueryKey = 2
    MaxEdits = 2
SPECIFICATION LayersSpec
INVARIANTS
    RemovedIsGone
CHECK_DEADLOCK FALSE
