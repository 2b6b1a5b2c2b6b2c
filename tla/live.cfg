\* Every accepted request is answered, date swaps and racing uploads included.
SPECIFICATION FairSpec
CONSTANTS
    Slots = {r1, r2}
    Submissions = {s1, s2}
    Workorders = {w1}
    Attachments = {a1, a2}
    Users = {admin}
    Admins = {admin}
    Codes = {c1}
    Regions = {north}
    ClientIds = {k1}
    Dates = {d1, d2}
    Future = {}
    Grids = {0}
    Totals = {1}
    Ops = {"start_drive", "update_admin_submission", "upload_attachment", "delete_attachment"}
    MaxTrail = 3
    None = None
INVARIANTS
    UniqueKeys
    FilesAreStored
PROPERTIES
    Answered
    OnlyUniqueViolationsEscape
