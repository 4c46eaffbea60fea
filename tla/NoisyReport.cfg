SPECIFICATION WatchSpec
CONSTANTS
    AbortUnderruns = 0
    UplinkPct = 10
    UplinkWindow = 8
    BreachTicks = 5
    NudgeSecs = 0
    GraceSecs = 0
    Rate = 50
    Losses = {0}
    MaxTicks = 8
INVARIANT LoneReportIsForgiven
CHECK_DEADLOCK FALSE
