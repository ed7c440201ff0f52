\* Every call site size, every served candidate (or none), and every
\* answer of every request, over two calls.
CONSTANTS
    NULL = NULL
    MaxCalls = 2
SPECIFICATION Spec
PROPERTY FetchesOnce
\* The calls end: after MaxCalls nothing more happens.
CHECK_DEADLOCK FALSE
