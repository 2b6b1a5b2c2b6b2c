CONSTANTS
    Pages = {"submission", "submissions", "workorder", "users", "pending"}
    Keys = {"daily-submission", "daily-submissions", "workorder", "users", "pending-users"}
    Slots = {m1}
    MaxSaves = 1
    MaxEvents = 3
    None = None
SPECIFICATION Spec
INVARIANT TypeOK
INVARIANT OnlyUncutReadsHideOwnChanges
PROPERTY OnlyRefetchedDrawersOverwrite
CHECK_DEADLOCK FALSE
