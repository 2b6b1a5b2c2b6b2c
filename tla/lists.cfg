CONSTANTS
    Lists = {"dashboard", "submissions", "workorders", "users", "no_submission_yet"}
    Fields = {"region", "query", "status", "work_date"}
    Shared <- MCShared
    LastPage = 2
    MaxEdits = 3
    MaxReturns = 1
SPECIFICATION Spec
INVARIANT OnlyOvertakenEditsAreLost
INVARIANT OnlyNoSubmissionPagesMisanswer
CHECK_DEADLOCK FALSE
