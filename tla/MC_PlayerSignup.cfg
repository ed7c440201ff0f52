CONSTANTS
    NULL = NULL
    Clubs = {c1, c2}
    Timer = 2
    MaxSends = 2
    MaxEdits = 3
    MaxSubmits = 1
SPECIFICATION Spec
INVARIANT CoachOfClub
CHECK_DEADLOCK FALSE
