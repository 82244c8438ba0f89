\* The wheel turns to and fro.
CONSTANTS
    NumSources = 2
    MaxSources = 2
    EncoderId  = 0
    Steps      <- BothWays
    MaxReports = 3
SPECIFICATION EncoderSpec
INVARIANTS ClicksKept
