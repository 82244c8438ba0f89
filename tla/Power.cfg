SPECIFICATION FairSpec
CONSTANTS
  Voltages = {0, 3300, 3737, 3950}
INVARIANTS LifecycleInv LevelIsRight
PROPERTIES OffWithButtonUp ReleaseSwitchesOff
