SPECIFICATION Spec
CONSTANTS
    a1 = a1
    a2 = a2
    a3 = a3
    b1 = b1
    Width = 4
    Height = 4
    Obstacle <- MCObstacle
    Water <- MCWater
    Resource <- MCResource
    BaseSize = 2
    BaseCorner <- MCBaseCorner
    Units <- FourUnits
    Owner <- OwnerOfFour
    InitialUnits <- FourUnits
    Nobody = Nobody
    Bullet = Bullet
    NoMove = NoMove
    BulletSets <- OneBullet
    HitSets <- OneHit
SYMMETRY SameSide
INVARIANTS
    TypeOK
    ExclusiveOccupancy
    NoDanglingUnit
    ResolvedByTheRules
PROPERTIES
    MovesAreLegal
