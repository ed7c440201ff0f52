CONSTANTS
    NULL = NULL
    MaxLogins = 2
SPECIFICATION Spec
INVARIANT ApiActsAsSignedInRole
CHECK_DEADLOCK FALSE
