SPECIFICATION Spec
CONSTANTS
    a1 = a1
    a2 = a2
    a3 = a3
    b1 = b1
    b2 = b2
    Width = 2
    Height = 4
    Obstacle = {}
    Water = {}
    Resource <- MCResource
    BaseSize = 2
    BaseCorner <- MCBaseCorner
    Objects = {a1, a2, a3, b1}
    SlotOf <- MCSlotOf
    InitialUnits = {a1, b1}
    MaxUnits = 2
    RawIds = {1, 2, 257}
    Amounts = {1, 2}
    UnitHealth = 2
    NaturalRate = 3
    ZoneRate = 2
    CapacityLv1 = 2
    CapacityLv2 = 5
    UpgradeCost <- MCUpgradeCost
    ManufactCost = 2
    EnergyLimit = 6
    Null = Null
    MaxTurn = 3
INVARIANTS
    TypeOK
    SlotsMatchUnits
PROPERTIES
    CollectingNeverCosts
    ProgramsOnlySpend
CHECK_DEADLOCK FALSE
