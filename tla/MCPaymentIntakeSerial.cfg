CONSTANTS
    Intents = {i1, i2}
    NoIntent = NoIntent
    Workers = {w1}
    HasSiblings = TRUE
    MaxDeclines = 1
    MaxFaults = 2
SPECIFICATION FairSpec
CHECK_DEADLOCK FALSE
PROPERTIES
    NothingHeldAfterCancel
    NamedCaptureIsHeld
