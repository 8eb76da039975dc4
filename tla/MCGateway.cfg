SPECIFICATION Spec
CONSTANTS
    Requests = {r1, r2}
    Usable = {"k1", "k2"}
    Foreign = {}
    Weak = {"k3"}
    Cache = 3
    Refresh = 2
    Deadline = 1
    MaxTime = 5
    MaxRotations = 1
    Burst = 3
    Scale = 7
    Rate = 2
    Second = 2
    MaxBack = 5
    MaxSteps = 3
    Exchanges = {"e1"}
    Users = {"u", "v"}
    MaxUpload = 3
    MaxReply = 3
    MaxErrorReply = 2
    FailOpen = FALSE
    MaxBlock = 2
    Slots = {s1, s2}
    Logins = {"a", "b"}
    MaxSessions = 2
SYMMETRY Symmetry
INVARIANTS NeverAboveRate UpstreamGetsTheRequest SuccessIsComplete OneResponse DocumentsEndWithSession
PROPERTIES WithdrawnKeysExpire FetchesSpaced PublishedKeysWork RefusalIsFree
