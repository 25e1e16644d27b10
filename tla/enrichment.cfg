SPECIFICATION EnrichmentSpec
CONSTANTS
    apple = apple
    intel = intel
    nvidia = nvidia
    cik1 = cik1
    cik2 = cik2
    Blank = Blank
    NoKey = NoKey
    Held <- HeldRows
    FundKeys <- FundRows
    Tops <- Requests
    MaxHoldings = 3
    MaxFilings = 3
    MaxChunks = 2
INVARIANTS
    SpendAccounted
PROPERTIES
    DeliversStream
    StreamCloses
CHECK_DEADLOCK FALSE
