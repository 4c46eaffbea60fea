SPECIFICATION Spec
CONSTANTS
    Calls <- MCTwoCalls
    KeyRank <- MCKeyRank
    Cap = 2
    MaxAttempts = 1
    RetryDelay = 0
    NetCheck = TRUE
    Threshold = 1
    Cooldown = 2
    ProbeWindow = 2
    Timely = TRUE
    GateHorizon = 100
    Delays = {0}
    MayPanic = TRUE
    MaxHistory = 0
    SipOutcomes = {"busy"}
    LiveResults <- MCTalkedOnly
    IdleHorizon = 1
INVARIANTS SlotAccounting NoLostWakeup
PROPERTY ImplementsGate
CHECK_DEADLOCK FALSE
