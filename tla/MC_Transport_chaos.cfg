\* Datagrams come doubled and overtake one another, and the server is killed
\* and started again at any moment.  A datagram that is still in flight when
\* the run ends is a lost one, so this covers losses too.  One of the
\* pictures is so wide that its header says 0 columns.
CONSTANTS
    Pictures <- MixedPages
    MaxFrames = 2
    PacketPayload = 2
    IdMod = 2
    DimMod = 4
    Copies <- Doubled
    Ordered = FALSE
    Garbage <- NoGarbage

SPECIFICATION RestartSpec

INVARIANTS
    OneFramePerPicture
    GeometryMatchesPayload

PROPERTIES
    ChannelSpec

\* The source may stop after MaxFrames frames.
CHECK_DEADLOCK FALSE
