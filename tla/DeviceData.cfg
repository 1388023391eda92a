SPECIFICATION FairSpec
CONSTANTS
    apex300 = apex300
    ac300 = ac300
    Sns <- MCTwo
    MqttSns <- MCMqtt
    NullSns <- MCNull
    MaxTime = 2
    MaxWrites = 1
INVARIANTS
    RestFieldsKept
PROPERTIES
    CachedContactAdvances
    RestContactShown
    SwitchSettles
