CONSTANTS
    Devices = {laptop, phone}
    Procs = {p1, p2}
    Sorts <- MCSorts
    Budgets <- MCBudgets
    MaxAttempts = 1
SPECIFICATION Spec
CHECK_DEADLOCK FALSE
SYMMETRY Symmetry
INVARIANTS TypeOK RevokedStaysDown LoginKeepsOneSession ProofsSpentOnce EnabledTotpWasConfirmed
