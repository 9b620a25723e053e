SPECIFICATION Spec
CONSTANTS
    u1 = u1
    u2 = u2
    n1 = n1
    Conn = {c1, c2}
    User = {u1, u2}
    Name = {n1, n2}
    NoName = NoName
    Position = {0, 1}
    LastSlot = 1
    StartItems = {0}
    Price = 2
    MaxId = 2
    MaxInserts = 1
    AutoAcc = TRUE
    DbMayFail = TRUE
    Accounts0 <- MCAccounts0
    Characters0 <- MCCharacters0
    Items0 <- MCItems0
SYMMETRY ConnSymmetry
INVARIANTS
    TypeOK
    NamesUnique
    OrphansNotInherited
    GoldWithinSaved
    CharacterIdentity
    ItemsAreTheCharacters
