SPECIFICATION Spec
CONSTANTS
    Thread = {loop, vis}
    Client = {c1, c2}
    Fallible = {c1}
    None = none
SYMMETRY ThreadSymmetry
INVARIANTS TypeOK BlocksOnlyForCause ModeRestored
PROPERTIES DeliverySpec
