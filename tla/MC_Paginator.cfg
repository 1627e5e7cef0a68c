CONSTANTS
    RangeSizes <- MCRangeSizes
    PageSizes <- MCPageSizes

SPECIFICATION Spec

INVARIANTS
    TypeOK
    SomethingLeft
    PagesTileRange

\* A finished constructor takes no further step.
CHECK_DEADLOCK FALSE
