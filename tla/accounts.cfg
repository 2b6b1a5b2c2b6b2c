SPECIFICATION Spec
CONSTANTS
    Slots = {r1, r2}
    ann = ann
    bob = bob
    cid = cid
    People = {ann, bob, cid}
    Allowed = {ann, bob}
    Email <- MCEmail
    Reviews = {"approve_user", "reject_user", "suspend_user"}
    MaxStamps = 3
    None = None
SYMMETRY Symmetry
INVARIANTS
    TypeOK
    OneBootstrapAdmin
    TrailTellsDecision
    RightsAreReviewed
