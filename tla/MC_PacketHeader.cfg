CONSTANTS
    Base <- MCBase
    Headers <- MCHeaders

SPECIFICATION Spec

INVARIANTS
    TypeOK
    ArrivesTruncated

\* A header that has arrived takes no further step.
CHECK_DEADLOCK FALSE
