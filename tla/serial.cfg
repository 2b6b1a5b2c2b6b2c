\* One request at a time: every operation, two days of one workorder, its owner an admin.
SPECIFICATION Spec
CONSTANTS
    Slots = {r1}
    Submissions = {s1, s2}
    Workorders = {w1}
    Attachments = {a1}
    Users = {admin}
    Admins = {admin}
    Codes = {c1}
    Regions = {north}
    ClientIds = {}
    Dates = {d1, d2}
    Future = {}
    Grids = {0, 1, 2}
    Totals = {2}
    Ops = {"start_drive", "end_drive", "update_submission", "update_admin_submission", "complete_submission", "reopen_submission", "upload_attachment", "delete_attachment", "update_workorder"}
    MaxTrail = 7
    None = None
SYMMETRY Symmetry
INVARIANTS
    CompletedAtTellsStatus
PROPERTIES
    CompletionRule
    OnlyAdminEditsExceedTotal
    CompletionClosesFullParent
    LossReopensParent
    NoDayUnderCompletedWorkorder
