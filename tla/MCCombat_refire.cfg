SPECIFICATION Spec
CONSTANTS
    a1 = a1
    b1 = b1
    x1 = x1
    x2 = x2
    x3 = x3
    Width = 8
    Height = 4
    Obstacle <- MCObstacle
    Water = {}
    Resource = {}
    BaseSize = 2
    BaseCorner <- MCBaseCorner
    Units <- TwoUnits
    StartOrder <- TwoInOrder
    StartTile <- TwoTiles
    DamageUpgraded <- Upgraded
    UnitHealth = 2
    HealthLimit = 3
    AttackCooldown = 2
    Capacity = 2
    Powers = {1, 2}
    BulletIds <- ThreeIds
    Nobody = Nobody
    Dangling = Dangling
    MaxTurn = 5
SYMMETRY Interchangeable
CHECK_DEADLOCK FALSE
INVARIANT
    EveryShotIsPaid
