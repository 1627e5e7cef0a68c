\* A server killed in the middle of a frame and started again, over a
\* network that loses datagrams and keeps their order.
CONSTANTS
    Pictures <- RawOneSize
    MaxFrames = 3
    PacketPayload = 2
    IdMod = 4
    DimMod = 8
    Copies <- Lossy
    Ordered = TRUE
    Garbage <- NoGarbage

SPECIFICATION RestartSpec

INVARIANTS
    FrameIdIdentifies

\* The source may stop after MaxFrames frames.
CHECK_DEADLOCK FALSE
