CONSTANTS
    Players = {a, b}
    MaxTeams = 2
    MaxEdits = 5
    MaxSubs = 1
    NULL = NULL
    Pids = {p1, tp}
    TeamPid = tp
SPECIFICATION Spec
INVARIANT TypeOK
INVARIANT IntentAmountIsRegistered
INVARIANT MergeMatchesReference
PROPERTY TeamSubmitSettles
\* Every payment has returned, or the team page has ended; nothing else happens.
CHECK_DEADLOCK FALSE
