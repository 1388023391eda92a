SPECIFICATION Spec
CONSTANTS
    apex300 = apex300
    eb3a = eb3a
    Devices <- MCDevices
    V2 <- MCV2
    PackLists <- MCPackLists
    Lacks <- MCLacks
    NoBlock = NoBlock
    NoRequest = NoRequest
    NoReply = NoReply
    MaxMarked = 2
INVARIANTS
    OnlyRefusedAreSkipped
