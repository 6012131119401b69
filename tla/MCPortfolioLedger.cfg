SPECIFICATION Spec
CONSTANTS
    Requests = 4
    Asked <- MCAsked
    Quantities = {0, 3}
    Fine = 3
    Tolerance = 1
    Overlap = TRUE
    Manual = TRUE
    Nothing = Nothing
INVARIANTS
    SyncUnlessDisturbed
CHECK_DEADLOCK FALSE
