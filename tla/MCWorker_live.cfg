SPECIFICATION FairSpec
CONSTANTS
    Workers = {w1}
    Docs = {d1}
    Malformed = Malformed
    Dangling = Dangling
    MaxEvents = 2
    MaxAttempts = 2
    Batch = 2
    ScanLimit = 1
    LateErrors = FALSE
    LeaseCoversWork = FALSE
PROPERTIES CommittedStaysProcessed EntriesSettle
