\* One bit (id 3) belongs to no source.
CONSTANTS
    NumSources = 3
    MaxSources = 4
SPECIFICATION FairSpec
INVARIANTS NoLostNotification NoSleepOverWork FillersExist
PROPERTIES DisableTakesEffect Served
