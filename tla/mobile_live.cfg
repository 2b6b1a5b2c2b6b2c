CONSTANTS
    People = {ann}
    Slots = {f1, f2}
    MaxPresses = 2
    MaxFailures = 2
    MaxRestarts = 1
    MaxReviews = 1
    None = None
SPECIFICATION FairSpec
CHECK_DEADLOCK FALSE
PROPERTY ApprovedReachesProjects
