SPECIFICATION Spec
CONSTANTS
    MaxLink = 2
    MaxSelective = 2
    MaxKcbar = 2
    AddrBlocks <- MCAddrBlocks
    StreamIds <- MCStreamIds
    MaxEntries = 4
INVARIANTS StreamIdSeen RightBlock
CHECK_DEADLOCK FALSE
