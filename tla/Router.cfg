SPECIFICATION MCSpec
CONSTANTS
  Crowd = 2
  Larger = {{"input","dijkstra","timeout"}, {"bcast","cli","timeout"}, {"bcast","cli","dijkstra"}}
  Masks = FALSE
  Unrouted = FALSE
  Pings = FALSE
  ra = ra
  rb = rb
  rc = rc
  rd = rd
  s1 = s1
  s2 = s2
  s3 = s3
  s4 = s4
  s5 = s5
  none = none
  Width = 2
  NoGateway = 99
  Statics <- MCStatics
  Dynamics <- MCDynamics
  Interfaces = {"e0", "e1"}
  HwRows = 4
  MaxRoutes = 5
  Rows = 1
  MaxStarts = 4
  MaxBusy = 2
INVARIANTS RoutesShortest HwAgrees  LocksSound NoRaces
CHECK_DEADLOCK FALSE
