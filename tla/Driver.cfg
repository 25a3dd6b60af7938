SPECIFICATION MCSpec
CONSTANTS
    RxQueues = {q1}
    TxCount = 3
    RxCount = 6
    Step = 4
    Budget = 2
    MaxTx = 4
    MaxRx = 6
    DmaFails = FALSE
    Short = {2}
    Queues = 3
    MayTimeOut <- timeouts
INVARIANTS RingsExact Rung LaddersSound
PROPERTIES AllDelivered
