\* Counters of 2 bits.
CONSTANTS
    NumSources  = 2
    MaxSources  = 2
    Modulus     = 4
    ButtonsId   = 0
    ButtonOrder <- LeftRight
    MaxDepth    = 2
SPECIFICATION ButtonsFairSpec
INVARIANTS ButtonsInv EveryToggleShown
PROPERTIES ImplementsCollector NewestShown
