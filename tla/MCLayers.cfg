\* Two layers, three frames of which two are mounted, two edits or movements.
CONSTANTS
    FrameCount = 3
    Lookahead = 1
    MaxLayerId = 2
    MaxStack = 2
    MaxQueryKey = 2
    MaxEdits = 2
SPECIFICATION LayersFairSpec
INVARIANTS
    LayersTypeOK
PROPERTIES
    NoBlankFlash
    PlayedIsShown
    SelectionIsShown
CHECK_DEADLOCK FALSE
