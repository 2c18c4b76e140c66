SPECIFICATION Spec
CONSTANTS
    Chan = {c1, c2}
    MAXSOCK = 5
    MaxSent = 1
    MaxFaults = 1
INVARIANTS
    PairsSymmetric
    NoForeignBytes
PROPERTIES
    ChannelsEnd
CHECK_DEADLOCK FALSE
