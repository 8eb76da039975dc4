SPECIFICATION Spec
CONSTANTS
    Requests = {r1, r2, r3, r4, r5}
    Limit = 3
    Slots = 4
    Uncaught = TRUE
    MaxEpoch = 7
SYMMETRY Symmetry
INVARIANTS TypeOK SlotsAccounted ClosedBelowLimit
PROPERTY ImplementsBreaker
