\* A client that may fail to create or bind its socket.
CONSTANTS
    Outcomes = {"none", "frame"}
    MaxFifo = 1

SPECIFICATION Spec

INVARIANTS
    FailureReported

\* The process ends.
CHECK_DEADLOCK FALSE
