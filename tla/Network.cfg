SPECIFICATION MCSpec
CONSTANTS
    Mod = 7
    Bits = 3
    MaxLag = 3
    MaxSent = 8
    Peer = {"pub", "sub"}
    Pub = "pub"
    Sub = "sub"
    Spi = {1, 2}
    Delay = {1}
    Lifetime = {0, 2}
    Sec = 2
    MaxTime = 3
    MaxReg = 3
    MaxRotate = 2
    Thread = {"t1", "t2"}
    Queue = 1
    MaxSpdu = 3
    Member = {"m1", "m2"}
    Attempts <- MCAttempts
    Standing <- MCStanding
    MaxTry = 1
    MaxPeers = 1
    MaxRc = 3
    MaxTeks = 2
    IntOctets = 3
    NarrowOctets = 2
    MAX_DEPTH = 64
    MAX_VALUE_DEPTH = 32
    MAX_ARRAY_ELEMENTS = 65536
    MAX_BIT_STRING_BITS = 65536
    MAX_DEFAULT_VALUES = 1048576
    MMS_MAX = 32001
    LengthOctets = 1
    MAX_PACKET = 4096
    Scenario <- MCScenario
    Exchange <- MCExchange
INVARIANTS
    TakenIffNew
    KeysKept
    InOrderIsFresh
    RegistrationHolds
    DeliveredIntact
    SetupAgrees
CHECK_DEADLOCK FALSE
