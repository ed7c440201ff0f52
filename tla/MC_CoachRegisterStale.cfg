CONSTANTS
    Students = {s1, s2}
    Codes = {"A", "B"}
    ValidCodes = {"A"}
    EntryFee = 20
    NULL = NULL
    MaxSteps = 8
    Shapes = {"irr", "toman", "both"}
SPECIFICATION Spec
INVARIANT ConfirmedAmountCharged
CHECK_DEADLOCK FALSE
