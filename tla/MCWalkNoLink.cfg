SPECIFICATION Spec
CONSTANTS
    MaxLink = 1
    MaxSelective = 1
    MaxKcbar = 1
    AddrBlocks <- MCAddrBlocks
    StreamIds <- MCStreamIds
    MaxEntries = 4
INVARIANTS StreamIdChecked
CHECK_DEADLOCK FALSE
