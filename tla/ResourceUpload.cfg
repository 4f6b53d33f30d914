CONSTANTS
    Cases <- MCCases
    MaxUses = 2
SPECIFICATION Spec
INVARIANTS
    AccessesSound
    AssertionsHold
CHECK_DEADLOCK FALSE
