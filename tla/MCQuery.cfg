SPECIFICATION Spec
CONSTANTS
    Requests = {r1, r2, r3}
    Tenants = {t1, t2}
    Limit = 4
    Bounds = {2, 5}
    LastDay = 2
    Usages = {0, 4}
    Docs <- MCDocs
    Owner <- MCOwner
    Words <- MCWords
    Corpus <- MCCorpus
    Questions <- MCQuestions
    Answers <- MCAnswers
    RrfK = 2
    TopKMax = 3
    Denominator = 60
    Threshold = 60
SYMMETRY Symmetry
INVARIANTS Ceiling SummaryAgrees OneSnapshot AnswersAreGrounded FusionIsFair
PROPERTIES NeverUndercharged ImplementsMemoryLedger
