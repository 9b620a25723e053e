SPECIFICATION Spec
CONSTANTS
    Client = {c1, c2}
    Npc = {n1, n2}
    Top = 4
    MobBase = 2
SYMMETRY IdSymmetry
INVARIANTS
    TypeOK
    ClientIdsUnique
    NpcIdsUnique
    IdsInUseAreTaken
    NeverReissued
    SharedOnlyIfRaced
    ClickNeverMisleads
