SPECIFICATION Spec
CONSTANTS
    Key <- MCKey
    Hash <- MCHash
    Beats <- MCBeats
    ZeroBeat <- MCZeroBeat
    ROWS = 2
    WIDTH = 2
    SAMPLE_RATE = 2
    SketchLimit = 4
    MAX_DEPTH = 4
    CountLimit = 4
    TReady = {TRUE}
    CpuInputs = {}
    MaxAccesses = 0
    MaxPackets = 4
    MaxStalls = 0
INVARIANT CountMinBound
