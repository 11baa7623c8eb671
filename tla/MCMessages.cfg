CONSTANTS
    Videos = {v1, v2}
    Photos = {photo}
    Clips = {clip1, clip2}
    Names = {film}
    Procs = {p1, p2}
    MaxRetries = 1
    Sorts <- MCSorts
    Budgets <- MCBudgets
    PageSize = 1
    Kinds = {like, heart, laugh}
    MaxReactions = 2
SPECIFICATION MCSpec
CHECK_DEADLOCK FALSE
SYMMETRY Symmetry
INVARIANTS WellFormed VideoKeepsFile PrimaryIsLastChosen DeletedStaysDeleted ScrollSeesAllInOrder
