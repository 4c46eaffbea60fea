SPECIFICATION FairSpec
CONSTANTS
    Calls <- MCTwoCalls
    KeyRank <- MCKeyRank
    Cap = 1
    MaxAttempts = 1
    RetryDelay = 0
    NetCheck = TRUE
    Threshold = 1
    Cooldown = 1
    ProbeWindow = 2
    Timely = FALSE
    GateHorizon = 0
    Delays = {1}
    MayPanic = FALSE
    MaxHistory = 0
    SipOutcomes = {"busy"}
    LiveResults <- MCTalkedOnly
    IdleHorizon = 1
PROPERTIES EveryCallEnds
CHECK_DEADLOCK FALSE
