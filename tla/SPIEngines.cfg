SPECIFICATION Spec
CONSTANTS
    Devices = {"A", "B"}
    External = {"B"}
    MaxBytes = 2
    Outstanding = 2
    FifoDepth = 2
    PollSlack = 3
    MaxFaults = 2
INVARIANTS TypeOK NoOverrun
PROPERTIES Implements RequestEnds
