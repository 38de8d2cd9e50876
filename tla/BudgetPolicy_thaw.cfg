SPECIFICATION Spec
CONSTANTS
    p1 = p1
    p2 = p2
    Pods = {p1, p2}
    Burns <- AllBurns
    MaxUp = 1
    MaxLost = 0
PROPERTY
    ThawFollows
CHECK_DEADLOCK FALSE
