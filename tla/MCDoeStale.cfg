SPECIFICATION Spec
CONSTANTS
    MaxExchanges = 2
    SendTimeout = 30
    RecvPolls = 2
    MaxObject = 4
    BufSizes <- MCAmpleBufSizes
INVARIANTS
    SuccessIsOwnResponse
