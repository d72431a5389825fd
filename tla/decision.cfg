SPECIFICATION Spec
CONSTANTS
    MedType = "deterministic"
    MaxUint8 = 255
    MaxUint32 = 1000
    Lists <- MCLists
    NULL = NULL
INVARIANTS
    SelectsElected
    RulesAreFilters
CHECK_DEADLOCK FALSE
