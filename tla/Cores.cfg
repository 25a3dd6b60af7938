SPECIFICATION MCSpec
CONSTANTS
    Word = {w1, w2}
    ZeroWord = w1
    MAX_DEPTH = 4
    Mac = {"a", "b", "c"}
    NoMac = "0"
    Headers <- MCHeaders
    LUT_DEPTH = 2
    PORT_DEPTH = 4
    CountLimit = 4
    TReady = {TRUE, FALSE}
    Resets = {FALSE}
    Clears = {{}}
    MaxBeats = 2
    MaxPackets = 3
INVARIANTS DepthIsPointerDistance OwnPorts
PROPERTIES ImplementsQueue ImplementsFwft HeadSurfaces PacketsLeave
