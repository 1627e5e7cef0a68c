\* Two frames may wait in the fifo; datagrams complete frames, do not, or
\* are refused with an exception; recv may fail.
CONSTANTS
    Outcomes = {"none", "frame", "throw", "error"}
    MaxFifo = 2

SPECIFICATION FairSpec

INVARIANTS
    TypeOK
    ReaderInsideLifetime

PROPERTIES
    QuitEnds
    DestructionEnds

\* The process ends.
CHECK_DEADLOCK FALSE
