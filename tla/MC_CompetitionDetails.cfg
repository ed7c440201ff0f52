CONSTANTS
    NULL = NULL
    MaxClicks = 4
SPECIFICATION Spec
PROPERTY SpinnersEnd
\* The page may rest: every request answered and the user done clicking.
CHECK_DEADLOCK FALSE
