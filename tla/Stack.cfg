SPECIFICATION MCSpec
CONSTANTS
  Digit = 2
  Inside = {1, 2}
  ExtIp = 3
  Remote = 2
  Ports = {2}
  MinPort = 0
  MaxIdle = 1
  MaxEntries = 2
  RxIn = 6
  TxIn = 4
  Leftovers = 1
INVARIANTS BuffersSound TranslationSound StreamIntact QueuesComplete
CHECK_DEADLOCK FALSE
