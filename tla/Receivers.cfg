\* Five receivers, seven packets each, ids modulo five.
CONSTANTS
  TidMod = 5
  MaxLate = 1
  MaxPackets = 7
  RxTimeout = 1
  QueryTimeout = 2
  MaxRetries = 1
  MaxQueries = 2
  RFID_DB_SIZE = 2
  Total <- MCTotal
  RadioData <- MCRadioData
  RadioParsed <- MCRadioParsed
  KmsData <- MCKmsData
  KmsValid <- MCKmsValid
  Kind <- MCKind
  Front <- MCFront
  Back <- MCBack
  Value <- MCValue

SPECIFICATION FairSpec

CHECK_DEADLOCK FALSE

INVARIANTS
  PacketsMixByRoundOnly
  TagsAreKept

PROPERTIES
  TakenInOrder
  ToldIsTaken
  QueryEnds
