CONSTANTS
    Pids = {p1, p2}
    NULL = NULL
SPECIFICATION Spec
INVARIANT CardsOfThisPayment
\* Every payment has returned once the set is used up; nothing else happens.
CHECK_DEADLOCK FALSE
