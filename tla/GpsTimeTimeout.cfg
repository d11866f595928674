\* A receiver that falls silent with the other one is not reported.
CONSTANTS
  FrameTimeout = 1
  FallbackTimeout = 3
  MismatchThresh = 1
  Statuses <- MCStatuses
  Errors = {0, 2}
  Horizon = 4
  Ratios <- MCRatios
  StartupSeconds = 1
  InitMs = 16
  MaxMs = 40
  Parts = {"gps"}

SPECIFICATION MCFairSpec

PROPERTIES
  TimeoutIsReported
