CONSTANTS
    People = {ann, bob}
    Slots = {f1, f2}
    MaxDays = 2
    MaxMiles = 2
    MaxDrafts = 1
    MaxPresses = 3
    MaxFailures = 1
    MaxSwitches = 1
    None = None
SPECIFICATION Spec
SYMMETRY Symmetry
INVARIANT TypeOK
PROPERTY EndedShiftsStay
INVARIANT OnlyLostAnswersDuplicate
INVARIANT ScreenTellsShift
INVARIANT ListTellsExpenses
CHECK_DEADLOCK FALSE
