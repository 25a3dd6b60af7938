SPECIFICATION MCSpec
CONSTANTS
  TCP_SND_BUF = 2
  TcpMsgs = 1
  MaxIn = 1
  MaxWrite = 2
  MaxCalls = 2
  MaxErrs = 1
  MaxFins = 2
  Senders = {"input", "app"}
  SYS_MBOX_SIZE = 3
  MaxPosts = 5
  Periods <- MCPeriods
  MaxWait = 2
  NUM_SOCKETS = 4
  CliClients = {"t1"}
  WebClients = {"w1", "w2"}
  Workers = {"a", "b"}
  Together = FALSE
  MaxCommands = 1
INVARIANTS CallsSound QueuesExact SocketsOwned
PROPERTIES WritesReturn AllFetched
CHECK_DEADLOCK FALSE
