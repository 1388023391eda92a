SPECIFICATION RelentingSpec
CONSTANTS
    ac300 = ac300
    apex300 = apex300
    MqttDevices <- MCDevices
    RestOnly = FALSE
    MaxAttempt = 5
    OverflowAt = 5
INVARIANTS
    UpMeansServed
    NoLostSession
    OneAttemptAtATime
    StoppedStaysStopped
    WaitInRange
PROPERTIES
    BackOnline
