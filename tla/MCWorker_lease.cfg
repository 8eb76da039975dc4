SPECIFICATION Spec
CONSTANTS
    Workers = {w1, w2}
    Docs = {d1}
    Malformed = Malformed
    Dangling = Dangling
    MaxEvents = 2
    MaxAttempts = 2
    Batch = 2
    ScanLimit = 1
    LateErrors = TRUE
    LeaseCoversWork = TRUE
SYMMETRY Symmetry
INVARIANTS TypeOK ProcessingIsOwed FailedIsRecorded
