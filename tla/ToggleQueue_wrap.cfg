\* Counters of 4 bits: they wrap after 16 puts.
CONSTANTS
    Modulus  = 16
    MaxDepth = 15
SPECIFICATION QueueSpec
INVARIANTS LenTellsPending
PROPERTIES ImplementsFifo
