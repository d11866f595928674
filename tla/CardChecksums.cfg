\* The checksums of the cards at the end of the startup.
CONSTANTS
  NumDevices = 2
  Configured = {1, 2}
  Mandatory = {1}
  StartupTimeout = 1
  HbPeriod = 2
  HbTimeout = 1
  MaxStall = 1
  gps1 = gps1
  commCard1 = commCard1
  riu = riu
  Receivers = {gps1}
  Groups = {commCard1, riu}
  PartsOf <- MCPartsOf

SPECIFICATION Spec

PROPERTY ChecksumsAreCombined
