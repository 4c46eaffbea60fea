SPECIFICATION FairSpec
CONSTANTS
    GreetEnabled = TRUE
    Goals = {"live"}
INVARIANTS LostOnlyAfterFirstTurn
PROPERTIES GreetsIntoSilence SilentCalleeIsGreeted EndCallEnds KeepsContract
CHECK_DEADLOCK FALSE
