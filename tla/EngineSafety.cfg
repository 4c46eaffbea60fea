SPECIFICATION Spec
CONSTANTS
    Calls <- MCTwoCalls
    KeyRank <- MCKeyRank
    Cap = 1
    MaxAttempts = 2
    RetryDelay = 1
    NetCheck = FALSE
    Threshold = 0
    Cooldown = 0
    ProbeWindow = 0
    Timely = FALSE
    GateHorizon = 0
    Delays = {0}
    MayPanic = FALSE
    MaxHistory = 1
    SipOutcomes = {"busy"}
    LiveResults <- MCTalkedOnly
    IdleHorizon = 1
INVARIANTS TypeOK OneOwner CancelReachable
PROPERTIES ImplementsService TranscriptKept
CHECK_DEADLOCK FALSE
