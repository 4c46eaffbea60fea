SPECIFICATION Spec
CONSTANTS
    HarvestGrace = TRUE
    WrapUp = TRUE
    Goals = {"voicemail"}
    Durations = {8000}
    MaxEvents = 2
INVARIANTS GoalKept
CHECK_DEADLOCK FALSE
