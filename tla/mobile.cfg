CONSTANTS
    People = {ann, bob}
    Slots = {f1, f2, f3}
    MaxPresses = 2
    MaxFailures = 0
    MaxRestarts = 0
    MaxReviews = 1
    None = None
SPECIFICATION Spec
SYMMETRY Symmetry
INVARIANT TypeOK
INVARIANT TabsAreApproved
INVARIANT OnlyOverlapsMix
INVARIANT OnlyLateAnswersSignBackIn
CHECK_DEADLOCK FALSE
