SPECIFICATION FairSpec
CONSTANTS
    MaxExchanges = 3
    SendTimeout = 30
    RecvPolls = 2
    MaxObject = 4
    BufSizes <- MCBufSizes
INVARIANTS
    TypeOK
    OwnResponse
    BufferBound
    InStep
PROPERTIES
    ImplementsExchange
