CONSTANTS
    Students = {s1, s2}
    Codes = {"A", "B"}
    ValidCodes = {"A"}
    EntryFee = 20
    NULL = NULL
    MaxSteps = 8
    Shapes = {"irr", "toman", "both"}
SPECIFICATION Spec
INVARIANT TypeOK
INVARIANT ConfirmedAmountChargedUnraced

\* The coach's inputs are bounded by MaxSteps: the page then waits.
CHECK_DEADLOCK FALSE
