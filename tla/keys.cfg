\* Two requests creating, moving and renaming rows under the same keys.
SPECIFICATION Spec
CONSTANTS
    Slots = {r1, r2}
    Submissions = {s1, s2}
    Workorders = {w1, w2}
    Attachments = {a1}
    Users = {admin}
    Admins = {admin}
    Codes = {c1, c2}
    Regions = {north}
    ClientIds = {}
    Dates = {d1, d2}
    Future = {}
    Grids = {0}
    Totals = {1}
    Ops = {"start_drive", "update_admin_submission", "update_workorder"}
    MaxTrail = 4
    None = None
SYMMETRY Symmetry
INVARIANTS
    UniqueKeys
    NoEmptyWorkorder
