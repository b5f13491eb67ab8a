SPECIFICATION FairNetSpec
CONSTANTS
    RingSize = 2
    RxRingSize = 3
    Outcomes = {TRUE, FALSE}
    Packet = {p1, p2}
    None = None
INVARIANTS PrintedOnce BuffersBehindPackets
PROPERTIES HandlerReturns FifoRefined SentOrJammed
CHECK_DEADLOCK FALSE
