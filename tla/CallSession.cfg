SPECIFICATION FairSpec
CONSTANTS
    HarvestGrace = TRUE
    WrapUp = TRUE
    Goals = {"voicemail"}
    Durations = {8000}
    MaxEvents = 2
INVARIANTS HarvestCompletes EligibleHarvested GoalRecorded
PROPERTIES SessionEnds
CHECK_DEADLOCK FALSE
