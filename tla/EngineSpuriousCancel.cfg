SPECIFICATION Spec
CONSTANTS
    Calls <- MCTwoCalls
    KeyRank <- MCKeyRank
    Cap = 2
    MaxAttempts = 2
    RetryDelay = 0
    NetCheck = FALSE
    Threshold = 0
    Cooldown = 0
    ProbeWindow = 0
    Timely = FALSE
    GateHorizon = 0
    Delays = {0}
    MayPanic = FALSE
    MaxHistory = 0
    SipOutcomes = {"busy"}
    LiveResults <- MCTalkedOnly
    IdleHorizon = 1
INVARIANTS NoSpuriousCancel
CHECK_DEADLOCK FALSE
