CONSTANTS
    Videos = {video}
    Photos = {photo}
    Clips = {clip}
    Names = {film}
    Procs = {p1, p2}
    MaxRetries = 1
    Sorts <- MCSorts
    Budgets <- ScrollBudgets
    PageSize = 1
    Kinds = {like, heart, laugh}
    MaxReactions = 2
SPECIFICATION Spec
CHECK_DEADLOCK FALSE
INVARIANTS ScrollSeesAll
