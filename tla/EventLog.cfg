\* Safety, liveness and refinement: ring, transactions and ACKs.
CONSTANTS
  QueueSize = 3
  TidMod = 2
  MaxRetries = 1
  AckTimeout = 2
  ClockMod = 4
  MaxEvents = 3
  Fragments <- MCFragments

SPECIFICATION FairSpec

INVARIANTS
  TypeOK
  RingHoldsPending
  ClosedOnce
  AckedWasStored

PROPERTIES
  NoEarlyTimeout
  GivesUpAfterAllRetries
  EveryRecordCloses
  ImplementsOrderedService
