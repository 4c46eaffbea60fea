\* A unit of time is 15 s: cooldown_ms 60000, preflight_max_window_ms 75600.
SPECIFICATION Spec
CONSTANTS
    Slots = {s1, s2, s3}
    Threshold = 2
    Cooldown = 4
    ProbeWindow = 5
    MaxTime = 10
INVARIANT SingleProbe
CHECK_DEADLOCK FALSE
