CONSTANTS
    NULL = NULL
    MaxLogins = 3
SPECIFICATION Spec
INVARIANT TypeOK
PROPERTY LogoutRevokesAccess
\* A browser session may stop at any point: nobody has to log in again.
CHECK_DEADLOCK FALSE
