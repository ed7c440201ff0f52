CONSTANTS
    n1 = n1
    n2 = n2
    Names <- MCNames
    REST = REST
    NONE = NONE
    Draws <- MCPrimaryDraws
    MaxBuilds = 2
SPECIFICATION Spec
INVARIANT TypeOK
INVARIANT ByeWinnerAdvances
INVARIANT SinglePathComplete
CHECK_DEADLOCK FALSE
SYMMETRY MCSymmetry
