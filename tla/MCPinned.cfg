SPECIFICATION Spec
CONSTANTS
    Request = {r1, r2}
    Backend = {"b1", "b2"}
    Provider = {"p", "q"}
    ProviderOf <- MCProviderOf
    AdapterOf <- MCAdapterOf
    ModelName <- MCModelName
    Limit <- MCLimit
    HonorHealth = TRUE
    MaxPieces = 2
    MaxOthers = 1
INVARIANTS
    BooksBalance
    AnswerIsOneAttempt
    StreamEndsOnce
PROPERTIES
    EveryCallEnds
CHECK_DEADLOCK FALSE
