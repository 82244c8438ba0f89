CONSTANTS
    Sensor = Sensor
    Avr    = Avr
    None   = None
SPECIFICATION FairSpec
INVARIANTS SpiInv NothingLeftBehind ClockKept SuccessIsComplete
PROPERTIES CallsReturn
