SPECIFICATION FairSpec
CONSTANTS
    Requests = {r1, r2, r3}
    Limit = 2
    Slots = 2
    Uncaught = FALSE
    MaxEpoch = 6
INVARIANT ProbeHasReporter
PROPERTY CircuitRecovers
