SPECIFICATION FairSpec
CONSTANTS
    Addr = {a1, a2, a3}
    None = none
    Place = {0}
    a1 = a1
    a2 = a2
    n1 = n1
    Npc = {}
    NpcPlace <- MCNoNpcPlace
    MINVISUALRANGE = 1
    MAXVISUALRANGE = 2
PROPERTY NeighboursSeen
