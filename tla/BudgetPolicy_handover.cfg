SPECIFICATION Spec
CONSTANTS
    p1 = p1
    p2 = p2
    Pods = {p1, p2}
    Burns <- AllBurns
    MaxUp = 2
    MaxLost = 1
INVARIANTS
    TypeOK
    FreezeRemembered
PROPERTIES
    FreezeFollowsUnlessLost
    OwnFreezeThaws
