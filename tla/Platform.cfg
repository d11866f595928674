\* Safety and liveness: startup, interrupts, reception, sending and routing.
CONSTANTS
  bus1 = bus1
  bus2 = bus2
  box3 = box3
  box5 = box5
  box3b = box3b
  Nodes = {bus1, bus2}
  Boxes = {box3, box5, box3b}
  NodeOf <- MCNodeOf
  QueueSize = 2
  ProcessLimit = 2
  MaxFrames = 3
  Configured <- MCConfigured
  Used <- MCUsed
  OffsetOfCpu = 1
  MaxCalls = 3
  MaxInterrupts = 2
  PLL_RETRIES = 2
  Defects <- MCDefects
  EfcErrors = {0, 21, 1}
  Inherited <- MCInherited
  Errors = {5, 34, 38}
  MaxRequests = 4
  MaxFlips = 2
  Nothing = Nothing
  Parts = {"rx", "bus", "boot", "vim", "routing"}

SPECIFICATION MCFairSpec

INVARIANTS
  DispatchedAsPublished
  NoFrameIsLostUnnoticed
  RoutedToItsHandler
  AcceptedIsSent
  StartupIsSafe
  HandlersAreRequested

PROPERTY
  EveryEntryDispatched

\* The startup ends, and no more frames are sent than the bound allows.
CHECK_DEADLOCK FALSE
