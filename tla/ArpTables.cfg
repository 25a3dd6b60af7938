CONSTANTS
  h1 = h1
  h2 = h2
  p1 = p1
  p2 = p2
  NoRoute = NoRoute
  Hops = {h1, h2}
  Macs = {m1}
  Packets = {p1, p2}
  Loud = {p1, p2}
  Back <- MCBack
  Ttls = {0, 1}
  HwRows = 1
  MaxRequests = 2
SPECIFICATION FairSpec
INVARIANTS TablesAgree KnownIsFlushed
PROPERTIES QueueDrains EntriesExpire
