SPECIFICATION FairSpec
CONSTANTS
    c1 = c1
    c2 = c2
    Calls = {c1, c2}
    Register = TRUE
    CmdRoom = 2
    Statuses = {200, 302, 486, 600, 603, 606}
    SessionResults <- MCResults
INVARIANTS ResultHasEvidence RefusalIsUnanswered
PROPERTIES PlaceResolves HangupEnds
CHECK_DEADLOCK FALSE
