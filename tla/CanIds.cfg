\* The claim of can.c:1355, which an interrupt in canUpdateID breaks.
CONSTANTS
  bus1 = bus1
  bus2 = bus2
  box3 = box3
  box5 = box5
  box3b = box3b
  Nodes = {bus1, bus2}
  Boxes = {box3, box5, box3b}
  NodeOf <- MCNodeOf
  QueueSize = 2
  ProcessLimit = 2
  MaxFrames = 3
  Configured <- MCConfigured
  Used <- MCUsed
  OffsetOfCpu = 1
  MaxCalls = 3
  MaxInterrupts = 2
  PLL_RETRIES = 2
  Defects <- MCDefects
  EfcErrors = {0, 21, 1}
  Inherited <- MCInherited
  Errors = {5, 34, 38}
  MaxRequests = 4
  MaxFlips = 2
  Nothing = Nothing
  Parts = {"bus"}

SPECIFICATION MCSpec

INVARIANT
  IdTransferIsIntact

CHECK_DEADLOCK FALSE
