SPECIFICATION FairSpec
CONSTANTS
    Counter = {"PKTIN"}
    Setting = {"TGTIPADDR"}
    ReadAddrs = {"PKTIN", "TGTIPADDR"}
    Writes <- MCWrites
    MaxEvents = 2
    MaxReads = 2
INVARIANTS ReadsTrue
PROPERTY AccessesEnd
