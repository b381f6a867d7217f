SPECIFICATION FairLook
CONSTANTS
    Width = 4
    Height = 2
    RangeLv1 = 3
    RangeLv2 = 5
INVARIANTS
    VisionFollowsTheRule
PROPERTIES
    LookEnds
