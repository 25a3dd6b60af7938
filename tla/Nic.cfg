SPECIFICATION Spec
CONSTANTS
    Key <- MCKey
    Hash <- MCHash
    Beats <- MCBeats
    ZeroBeat <- MCZeroBeat
    ROWS = 2
    WIDTH = 2
    SAMPLE_RATE = 2
    SketchLimit = 4
    MAX_DEPTH = 2
    CountLimit = 3
    TReady = {TRUE, FALSE}
    CpuInputs <- MCCpu
    MaxAccesses = 1
    MaxPackets = 4
    MaxStalls = 1
INVARIANTS PassesRight CountersExact LastTargetWithinOne
