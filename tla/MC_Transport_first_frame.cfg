\* Two frames over a loopback network into a receiver whose counter starts
\* at zero.
CONSTANTS
    Pictures <- RawOneSize
    MaxFrames = 2
    PacketPayload = 2
    IdMod = 2
    DimMod = 8
    Copies <- Reliable
    Ordered = TRUE
    Garbage <- NoGarbage

SPECIFICATION Spec

INVARIANTS
    IntegrityIsPercentage

\* The source may stop after MaxFrames frames.
CHECK_DEADLOCK FALSE
