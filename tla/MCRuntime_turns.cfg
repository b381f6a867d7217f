SPECIFICATION Spec
CONSTANTS
    base = base
    u1 = u1
    u2 = u2
    Base = base
    UnitDevices = {u1, u2}
    InitialUnits = {u1}
    Broken = {u2}
    MessageLengths = {0, 200, 513}
    PacketSize = 512
    LogLengths = {0, 4, 513}
    LengthLimit = 512
    InitialQuota = 6
    Refill = 2
    MaxQuota = 8
    Nobody = Nobody
    MaxTurn = 3
INVARIANTS
    TypeOK
    MessagesArriveNextTurn
    CrashCostsOneTurn
    LogBudget
CHECK_DEADLOCK FALSE
