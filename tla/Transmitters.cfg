\* One radio, SMOCIP and NMS: queues of two packets, one retry; the second
\* NMS message wants no ACK.
CONSTANTS
  radio1 = radio1
  radio2 = radio2
  AAP = AAP
  REG_TYPE1 = REG_TYPE1
  Radios = {radio1}
  PktTypes = {AAP, REG_TYPE1}
  TypeOf <- MCTypeOf
  Fragments <- MCFragments
  AckRequired <- MCAckRequired
  QueueSize = 2
  TidMod = 2
  MaxRetries = 1
  AckTimeout = 1
  MaxPackets = 3
  MaxWraps = 1

SPECIFICATION TxFairSpec

INVARIANTS
  NmsConfirmedWasHeard

PROPERTIES
  QueuesServeInOrder
  FragmentsInOrder
  RetriesAreCounted
  EveryPacketLeaves
