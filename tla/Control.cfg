SPECIFICATION FairSpec
CONSTANTS
    Models <- MCModels
    Followed <- MCFollowed
    Nodes <- MCNodes
    Pushed <- MCPushed
    PushSizes <- MCPushSizes
    Short <- MCShort
    UserValues <- MCUserValues
    MaxWrites = 1
    MaxOnWire = 1
    MaxMarked <- MCMaxMarked
INVARIANTS
    TypeOK
    RoutedAsSent
    ReadsInside
PROPERTIES
    OnlyAskedChanges
    SentUnderstood
    WritesSettle
