\* The claim of radio.c:1040, which a late or second ACK breaks.
CONSTANTS
  radio1 = radio1
  radio2 = radio2
  AAP = AAP
  REG_TYPE1 = REG_TYPE1
  Radios = {radio1, radio2}
  PktTypes = {AAP, REG_TYPE1}
  TypeOf <- MCTypeOf
  Fragments <- MCFragments
  AckRequired <- MCAckRequired
  QueueSize = 2
  TidMod = 4
  MaxRetries = 1
  AckTimeout = 1
  MaxPackets = 3
  MaxWraps = 1

SPECIFICATION TxSpec

PROPERTY
  AckCorrespondsToHead
