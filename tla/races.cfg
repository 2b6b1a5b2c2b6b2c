\* Two requests racing over one day, its file and its workorder.
SPECIFICATION Spec
CONSTANTS
    Slots = {r1, r2}
    Submissions = {s1}
    Workorders = {w1}
    Attachments = {a1}
    Users = {driver, admin}
    Admins = {admin}
    Codes = {c1}
    Regions = {north}
    ClientIds = {}
    Dates = {d1}
    Future = {}
    Grids = {0, 1}
    Totals = {1}
    Ops = {"start_drive", "end_drive", "update_submission", "update_admin_submission", "complete_submission", "reopen_submission", "upload_attachment", "delete_attachment"}
    MaxTrail = 6
    None = None
SYMMETRY Symmetry
INVARIANTS
    TypeOK
    TrailTellsStatus
    VersionWithinTrail
    OnlyKeySwapsDeadlock
PROPERTIES
    ImplementsLifecycle
