\* Pin 1 re-arms itself, as the mode button does.
CONSTANTS
    Pins       = {0, 1}
    N          = 2
    Rearming   = {1}
SPECIFICATION FairSpec
INVARIANTS DebounceInv NoPinForgotten EdgeAttendedUnlessMasked
PROPERTIES LockedOutAndBack
