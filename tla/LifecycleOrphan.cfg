SPECIFICATION Spec
CONSTANTS
    ac300 = ac300
    apex300 = apex300
    MqttDevices <- MCDevices
    RestOnly = FALSE
    MaxAttempt = 1
    OverflowAt = 1024
SYMMETRY MCSymmetry
INVARIANTS
    NoSessionAfterStop
