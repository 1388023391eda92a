\* Two requests of any kind to two addresses; the home block is also pushed.
SPECIFICATION FairSpec
CONSTANTS
    Home = Home
    PackItem = PackItem
    Slaves <- MCSlaves
    Registers <- MCRegisters
    Unsized <- MCUnsized
    Streamed <- MCStreamed
    NoBlock = NoBlock
    NoRequest = NoRequest
    NoReply = NoReply
    MaxRequests = 2
INVARIANTS
    ListIsOpen
    RecognisedAnswersOwnBlock
PROPERTIES
    SettledOnce
    NoAnswerIgnored
    ImplementsRequestReply
    EveryRequestEnds
