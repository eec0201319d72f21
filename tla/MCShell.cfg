SPECIFICATION Spec
CONSTANTS
    MAXARGS = 4
    NPROC = 5
    Lines <- MCLines
    Filters <- MCFilters
    Missing <- MCMissing
INVARIANTS DoesWhatItSays
PROPERTIES EverythingEnds
CHECK_DEADLOCK FALSE
