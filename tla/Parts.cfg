SPECIFICATION PartsSpec
CONSTANTS
    Samples = 4
    WarmupPings = 1
    MaxRtt = 300
    MaxJitter = 50
    MaxLossPct = 25
    MaxSetup = 2500
    RetryMax = 3
    BackoffBase = 5000
    Rtts = {100, 140, 400}
    ConnectTimes = {200, 5000}
    AckTimes = {100}
    PrebufferMs = 40
    ResumeMs = 30
    Chunks = {240, 480, 1000}
    MaxAudio = 4000
    M = 8
    Start = 6
    Reach = 3
    MaxReceived = 6
    RingFrames = 2
    LineLevels = {0, 60, 150, 199, 200, 250, 300, 500, 1000, 4000}
    SpeechLevels = {0, 200, 500, 600, 1500, 3000, 12000, 30000}
    MaxLine = 80
    MaxSpeech = 4
    TargetRms = 4125
    MaxGain = 31623
    NoiseFloorRms = 200
    MinRms = 200
    Ratio = 3
    OnsetFrames = 3
    WarmupFrames = 10
    LiftedRatio = 8
    AbortUnderruns = 3
    UplinkPct = 10
    UplinkWindow = 8
    BreachTicks = 5
    NudgeSecs = 4
    GraceSecs = 3
    Rate = 50
    Losses = {0, 15, 50}
    MaxTicks = 10
    Calls = {1, 2}
    TaskCalls = {1}
    Cap = 1
    MaxAttempts = 2
    MaxHistory = 1
    MaxCall = 1
    Drain = 1
    Margin = 2
    Slots = {s1, s2, s3}
    BreakerThreshold = 2
    Cooldown = 2
    ProbeWindow = 3
    MaxTime = 10
INVARIANTS MediaTypeOK WithinWindow LoneSpikeIsForgiven MaxIsNewest LossIsExact RingSilenceDecides SpeechIsHeard UplinkGateIsCurrent DownlinkGateIsCurrent ResumedCallGoesOn CodecIsFaithful TaskTellsResult SweptAfterLongWait ProbesAreSpaced
PROPERTIES UnderrunsAreDropouts OnlyTailIsHeld TaskSettles HoldEnds
CHECK_DEADLOCK FALSE
