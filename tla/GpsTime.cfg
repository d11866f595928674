\* Safety and liveness: selection, fallback and faults; the ticks of the loop.
CONSTANTS
  FrameTimeout = 1
  FallbackTimeout = 3
  MismatchThresh = 1
  Statuses <- MCStatuses
  Errors = {0, 2}
  Horizon = 4
  Ratios <- MCRatios
  StartupSeconds = 1
  InitMs = 16
  MaxMs = 40
  Parts = {"gps", "loop"}

SPECIFICATION MCFairSpec

INVARIANTS
  ValidTimeHasSource
  NmsFaultCoversFaults
  SelectionIsUsable

PROPERTIES
  FallbackExpires
  TicksAreServed
