CONSTANTS
    Days = {d1}
    Grids = {0, 1}
    Corrections <- OneCount
    Slots = {f1, f2}
    MaxMoves = 2
    MaxFiles = 1
    Desk = Desk
    None = None
    Failed = Failed
SPECIFICATION Spec
SYMMETRY Symmetry
INVARIANT TypeOK
INVARIANT VersionTellsRecord
PROPERTY SavesOverwriteWhatWasSeen
 
CHECK_DEADLOCK FALSE
