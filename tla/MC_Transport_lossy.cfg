\* A network that keeps the order of datagrams and may lose any of them;
\* three identifiers, so that the fourth frame has the number of the first.
CONSTANTS
    Pictures <- RawThreePages
    MaxFrames = 4
    PacketPayload = 2
    IdMod = 3
    DimMod = 8
    Copies <- Lossy
    Ordered = TRUE
    Garbage <- AnyGarbage

SPECIFICATION Spec

INVARIANTS
    TypeOK
    ReceiverSurvives
    OneFramePerPicture
    InOrder
    NoFalseFull

PROPERTIES
    ChannelSpec
    OnlyLapsConfuse

\* The source may stop after MaxFrames frames.
CHECK_DEADLOCK FALSE
