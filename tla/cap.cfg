\* A driver raises the day's grids to the workorder's total.
SPECIFICATION Spec
CONSTANTS
    Slots = {r1}
    Submissions = {s1}
    Workorders = {w1}
    Attachments = {a1}
    Users = {driver}
    Admins = {}
    Codes = {c1}
    Regions = {north}
    ClientIds = {}
    Dates = {d1}
    Future = {}
    Grids = {0, 1, 2}
    Totals = {2}
    Ops = {"start_drive", "update_submission"}
    MaxTrail = 3
    None = None
PROPERTIES
    RefusesOnlyOverTotal
