\* All routes behind the middleware; downloads with 5 redirects (the code's number).
CONSTANTS
    mark = mark
    print = print
    none = none
    Clients = {"c"}
    Limit = 2
    Algs = {mark, print}
    Extractors = {mark}
    NoAlg = none
    Regions <- MCRegions
    MaxRedirects = 5
    MaxBytes = 3
    MaxChunk = 2
SPECIFICATION FairSpec
INVARIANTS
    TypeOK
    LimitIsKept
    OnlyAuthorised
    FetchesAreVetted
    BodiesAreReleased
    TimerIsCleared
    HintNeverOverrides
PROPERTIES
    AnswersAreDocumented
    StatusIsEarned
    ImplementsApp
    EveryRequestAnswered
