CONSTANTS
    Intents = {i1}
    NoIntent = NoIntent
    Workers = {w1}
    HasSiblings = FALSE
    MaxDeclines = 1
    MaxFaults = 0
SPECIFICATION FairSpec
CHECK_DEADLOCK FALSE
PROPERTIES
    CapturedIsHeld
