SPECIFICATION Spec
CONSTANT Coord = {1, 2}
INVARIANTS
    TypeOK
    PositionIsGiven
    ExactUnlessOverlapped
