\* Four reads, of which the window of timestamps keeps three; the clock may
\* stand still, advance within the interval, or by more than an int holds.
CONSTANTS
    CommandLines <- MCCommandLines
    FrameSizes <- MCFrameSizes
    EncodedSizes = {3}
    PacketPayload = 2
    HeaderSize = 1
    Base = 4
    LittleEndian = TRUE
    Steps = {1, 4}
    MaxClock = 5
    MaxReads = 4
    Interval = 1
    IntRange = 8
    Window = 3
    Second = 1

SPECIFICATION FairSpec

INVARIANTS
    TypeOK
    SettingsInEffect
    AddressInEffect
    TrafficIsLastSecond
    FrameRateIsRecent
    HeldOnlyToCopy

PROPERTIES
    TroubleReported

\* The server ends, or its source stops after MaxReads frames.
CHECK_DEADLOCK FALSE
