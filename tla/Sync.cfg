SPECIFICATION FairSync
CONSTANTS
    MaxSaves = 2
    MaxRetries = 1
    MaxCrashes = 1
    MaxTriggers = 1
CHECK_DEADLOCK FALSE
INVARIANT ReloadsOwnConfig
INVARIANT AppliedAloneIsInForce
PROPERTY ReloadsEnd
PROPERTY LoadSettles
