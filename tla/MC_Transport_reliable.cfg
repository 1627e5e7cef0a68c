\* A loopback network: nothing is lost, nothing overtakes.
CONSTANTS
    Pictures <- RawThreePages
    MaxFrames = 4
    PacketPayload = 2
    IdMod = 2
    DimMod = 8
    Copies <- Reliable
    Ordered = TRUE
    Garbage <- AnyGarbage

SPECIFICATION FairSpec

INVARIANTS
    LosslessExact

PROPERTIES
    NewestButOneShown

\* The source may stop after MaxFrames frames.
CHECK_DEADLOCK FALSE
