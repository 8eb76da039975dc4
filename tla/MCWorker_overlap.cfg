SPECIFICATION Spec
CONSTANTS
    Workers = {w1, w2}
    Docs = {d1}
    Malformed = Malformed
    Dangling = Dangling
    MaxEvents = 2
    MaxAttempts = 2
    Batch = 1
    ScanLimit = 1
    LateErrors = FALSE
    LeaseCoversWork = FALSE
SYMMETRY Symmetry
INVARIANTS AckedIsDurable ProcessedHasOutput PipelineRunsBounded
