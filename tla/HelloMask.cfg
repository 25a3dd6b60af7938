CONSTANTS
  Crowd = 1
  Larger = {}
  Masks = TRUE
  Unrouted = FALSE
  Pings = FALSE
SPECIFICATION Spec
INVARIANT NothingHeld
