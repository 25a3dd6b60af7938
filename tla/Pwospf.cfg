CONSTANTS
  a = a
  b = b
  c = c
  lan = lan
  NoRouter = NoRouter
  Strangers = {c}
  Routers = {a, b}
  Subnets = {lan}
  Attached <- MCAttached
  NbrTimeout = 1
  LsuInterval = 1
  SeqSpan = 65536
  InitTtl = 64
  FirstSeq = 100
  MaxTime = 8
  MaxFaults = 1
  LastFault = 0
  Commands = {"up", "down", "lsu on", "lsu off", "send hello", "send lsu"}
  Settling = 6
SPECIFICATION Spec
INVARIANTS ListsAgree Converges
PROPERTIES NeverOlder
CHECK_DEADLOCK FALSE
SYMMETRY Sym
