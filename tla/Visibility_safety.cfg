SPECIFICATION FairSpec
CONSTANTS
    Addr = {a1, a2}
    None = none
    Place = {0, 1, 2}
    a1 = a1
    a2 = a2
    n1 = n1
    Npc = {n1}
    NpcPlace <- MCNpcPlace
    MINVISUALRANGE = 1
    MAXVISUALRANGE = 2
INVARIANTS TypeOK VanishesForCause ListsAreSound
PROPERTIES LifecycleSpec NpcsSeen DanglingCleared
