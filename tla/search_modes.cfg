CONSTANTS
    Breakers = {"embed", "qdrant", "rerank"}
    Callers = {c1, c2}
    Nobody = Nobody
    Threshold = 2
    Permits <- FewPermits
SPECIFICATION FairSpec
INVARIANTS
    TypeOK
    BreakersAgree
    PermitsAreReturned
    AnswersAreTruthful
PROPERTIES
    RefusalsAreFounded
    BreakersClose
